---- MODULE Spec2Model ----
(***************************************************************************)
(* Model of the prompt optimizer of src/lib/optimizer.ts                   *)
(* (TreeOfThoughtsOptimizer, optimizePrompt, fallbackOptimization).        *)
(*                                                                         *)
(* JavaScript strings are TLA+ strings; the string methods the code uses   *)
(* (toLowerCase, trim, includes, split, endsWith, startsWith and the       *)
(* regular expressions) are operators that work character by character.    *)
(* JavaScript numbers that are not integers are IEEE-754 doubles; they are *)
(* records [sgn, m, e] with a 53-bit mantissa m held in four 14-bit limbs, *)
(* and +, *, / round to nearest, ties to even, as the hardware does.       *)
(***************************************************************************)
EXTENDS Integers, Sequences, FiniteSets, TLC

(***************************************************************************)
(* Bounds of the model.                                                    *)
(***************************************************************************)
MaxWords == 2
MaxCalls == 2
NumSeeds == 1
MaxHops == 3
MaxHistoryCalls == 3
MaxPending == 2
MaxToastTimers == 1

(***************************************************************************)
(* Strings.                                                                *)
(***************************************************************************)
CharAt(s, i) == SubSeq(s, i, i)

UpperChars == "ABCDEFGHIJKLMNOPQRSTUVWXYZ"
LowerChars == "abcdefghijklmnopqrstuvwxyz"
DigitChars == "0123456789"

CharsOf(s) == {CharAt(s, i) : i \in 1..Len(s)}

LowerOf ==
  [c \in CharsOf(UpperChars) |->
     CharAt(LowerChars, CHOOSE i \in 1..Len(UpperChars) : CharAt(UpperChars, i) = c)]

LowerChar(c) == IF c \in DOMAIN LowerOf THEN LowerOf[c] ELSE c

RECURSIVE LowerRange(_, _, _)
\* the characters lo..hi of s in lower case
LowerRange(s, lo, hi) ==
  IF lo > hi THEN ""
  ELSE IF lo = hi THEN LowerChar(CharAt(s, lo))
  ELSE LowerRange(s, lo, (lo + hi) \div 2) \o LowerRange(s, ((lo + hi) \div 2) + 1, hi)

\* String.prototype.toLowerCase
ToLowerCase(s) == LowerRange(s, 1, Len(s))

WordChars == CharsOf(LowerChars) \cup CharsOf(UpperChars) \cup CharsOf(DigitChars) \cup {"_"}

\* the class \w of a regular expression
IsWordChar(c) == c \in WordChars

IsSpaceChar(c) == c = " " \/ c = "\t" \/ c = "\n" \/ c = "\r"

\* s has w at position i (1-based), compared exactly
MatchAt(s, w, i) ==
  /\ i >= 1
  /\ i + Len(w) - 1 <= Len(s)
  /\ (Len(w) = 0 \/ (CharAt(s, i) = CharAt(w, 1) /\ SubSeq(s, i, i + Len(w) - 1) = w))

\* s has the lower-case word w at position i, ignoring the case of s
MatchAtCI(s, w, i) ==
  /\ i >= 1
  /\ i + Len(w) - 1 <= Len(s)
  /\ \A k \in 1..Len(w) : LowerChar(CharAt(s, i + k - 1)) = CharAt(w, k)

\* String.prototype.includes
Includes(s, w) == \E i \in 1..(Len(s) - Len(w) + 1) : MatchAt(s, w, i)

\* String.prototype.indexOf, 1-based, 0 when absent
IndexOf(s, w) ==
  IF ~Includes(s, w) THEN 0
  ELSE CHOOSE i \in 1..(Len(s) - Len(w) + 1) :
         MatchAt(s, w, i) /\ \A j \in 1..(i - 1) : ~MatchAt(s, w, j)

StartsWith(s, w) == MatchAt(s, w, 1)

EndsWith(s, w) == Len(w) <= Len(s) /\ MatchAt(s, w, Len(s) - Len(w) + 1)

RECURSIVE FirstNonSpace(_, _)
FirstNonSpace(s, i) ==
  IF i > Len(s) THEN i
  ELSE IF IsSpaceChar(CharAt(s, i)) THEN FirstNonSpace(s, i + 1) ELSE i

RECURSIVE LastNonSpace(_, _)
LastNonSpace(s, i) ==
  IF i < 1 THEN i
  ELSE IF IsSpaceChar(CharAt(s, i)) THEN LastNonSpace(s, i - 1) ELSE i

\* String.prototype.trim
Trim(s) == SubSeq(s, FirstNonSpace(s, 1), LastNonSpace(s, Len(s)))

\* s.split(sep)[0]
SplitFirst(s, sep) ==
  LET k == IndexOf(s, sep) IN
  IF k = 0 THEN s ELSE SubSeq(s, 1, k - 1)

\* s.split(sep)[1], for an s that includes sep
SplitSecond(s, sep) ==
  LET k    == IndexOf(s, sep)
      rest == SubSeq(s, k + Len(sep), Len(s))
  IN SplitFirst(rest, sep)

\* s.split(' ').length
SplitSpaceCount(s) == Cardinality({i \in 1..Len(s) : CharAt(s, i) = " "}) + 1

\* /\b(w1|...|wn)\b/i.test(s) for lower-case alternatives that begin and
\* end with a word character
WordBoundaryTest(s, alternatives) ==
  \E i \in 1..Len(s) :
    /\ (i = 1 \/ ~IsWordChar(CharAt(s, i - 1)))
    /\ \E w \in alternatives :
         /\ MatchAtCI(s, w, i)
         /\ (i + Len(w) > Len(s) \/ ~IsWordChar(CharAt(s, i + Len(w))))

RECURSIVE JoinFrom(_, _, _)
JoinFrom(items, sep, i) ==
  IF i > Len(items) THEN ""
  ELSE IF i = Len(items) THEN items[i]
  ELSE items[i] \o sep \o JoinFrom(items, sep, i + 1)

\* Array.prototype.join
Join(items, sep) == JoinFrom(items, sep, 1)

(***************************************************************************)
(* IEEE-754 doubles.                                                       *)
(***************************************************************************)
LimbBase == 16384
LimbBits == 14
MantBits == 53

Limb(N, i) == IF i >= 1 /\ i <= Len(N) THEN N[i] ELSE 0

RECURSIVE BitLen1(_)
BitLen1(x) == IF x = 0 THEN 0 ELSE 1 + BitLen1(x \div 2)

RECURSIVE BigTop(_, _)
BigTop(N, i) == IF i = 0 THEN 0 ELSE IF N[i] # 0 THEN i ELSE BigTop(N, i - 1)

BigBitLen(N) ==
  LET t == BigTop(N, Len(N)) IN
  IF t = 0 THEN 0 ELSE LimbBits * (t - 1) + BitLen1(N[t])

BigBit(N, j) == (Limb(N, (j \div LimbBits) + 1) \div (2 ^ (j % LimbBits))) % 2

\* all bits of N below bit j are zero
BigLowZero(N, j) ==
  /\ \A i \in 1..Len(N) : i < (j \div LimbBits) + 1 => N[i] = 0
  /\ Limb(N, (j \div LimbBits) + 1) % (2 ^ (j % LimbBits)) = 0

BigShr(N, s) ==
  LET a == s \div LimbBits
      b == s % LimbBits
  IN [i \in 1..Len(N) |->
        (Limb(N, i + a) \div (2 ^ b))
        + (Limb(N, i + a + 1) % (2 ^ b)) * (2 ^ (LimbBits - b))]

BigShl(N, s) ==
  LET a == s \div LimbBits
      b == s % LimbBits
  IN [i \in 1..(Len(N) + a + 1) |->
        ((Limb(N, i - a) * (2 ^ b)) % LimbBase)
        + ((Limb(N, i - a - 1) * (2 ^ b)) \div LimbBase)]

RECURSIVE BigNormFrom(_, _, _)
\* carry propagation over column sums
BigNormFrom(cols, i, carry) ==
  IF i > Len(cols)
  THEN IF carry = 0 THEN <<>> ELSE <<carry % LimbBase>> \o BigNormFrom(cols, i, carry \div LimbBase)
  ELSE <<(cols[i] + carry) % LimbBase>> \o BigNormFrom(cols, i + 1, (cols[i] + carry) \div LimbBase)

BigMax(a, b) == IF a > b THEN a ELSE b

BigAdd(A, B) ==
  BigNormFrom([i \in 1..BigMax(Len(A), Len(B)) |-> Limb(A, i) + Limb(B, i)], 1, 0)

RECURSIVE BigSubFrom(_, _, _, _)
\* A - B for A >= B
BigSubFrom(A, B, i, borrow) ==
  IF i > Len(A) THEN <<>>
  ELSE LET d == Limb(A, i) - Limb(B, i) - borrow IN
       IF d < 0 THEN <<d + LimbBase>> \o BigSubFrom(A, B, i + 1, 1)
       ELSE <<d>> \o BigSubFrom(A, B, i + 1, 0)

BigSub(A, B) == BigSubFrom(A, B, 1, 0)

RECURSIVE BigCmpFrom(_, _, _)
BigCmpFrom(A, B, i) ==
  IF i = 0 THEN 0
  ELSE IF Limb(A, i) > Limb(B, i) THEN 1
  ELSE IF Limb(A, i) < Limb(B, i) THEN -1
  ELSE BigCmpFrom(A, B, i - 1)

BigCmp(A, B) == BigCmpFrom(A, B, BigMax(Len(A), Len(B)))

RECURSIVE BigColSum(_, _, _, _)
BigColSum(A, B, k, i) ==
  IF i > Len(A) THEN 0
  ELSE Limb(A, i) * Limb(B, k + 1 - i) + BigColSum(A, B, k, i + 1)

BigMul(A, B) ==
  BigNormFrom([k \in 1..(Len(A) + Len(B) - 1) |-> BigColSum(A, B, k, 1)], 1, 0)

RECURSIVE BigDivFrom(_, _, _, _)
\* long division of N by the small number d, from the top limb down
BigDivFrom(N, d, i, rem) ==
  IF i = 0 THEN [q |-> <<>>, r |-> rem]
  ELSE LET cur  == rem * LimbBase + N[i]
           rest == BigDivFrom(N, d, i - 1, cur % d)
       IN [q |-> Append(rest.q, cur \div d), r |-> rest.r]

BigDivSmall(N, d) == BigDivFrom(N, d, Len(N), 0)

FZero == [sgn |-> 0, m |-> <<0, 0, 0, 0>>, e |-> 0]

\* the double nearest to sgn * (N * 2^e), or to a value slightly above
\* N * 2^e when sticky; ties go to the even mantissa
FRound(sgn, N, e, sticky) ==
  LET L == BigBitLen(N) IN
  IF L = 0 \/ sgn = 0 THEN FZero
  ELSE IF L <= MantBits
  THEN [sgn |-> sgn,
        m   |-> SubSeq(BigShl(N, MantBits - L) \o <<0, 0, 0, 0>>, 1, 4),
        e   |-> e - (MantBits - L)]
  ELSE LET s     == L - MantBits
           q     == SubSeq(BigShr(N, s) \o <<0, 0, 0, 0>>, 1, 4)
           guard == BigBit(N, s - 1) = 1
           rest  == sticky \/ ~BigLowZero(N, s - 1)
           up    == guard /\ (rest \/ q[1] % 2 = 1)
           q1    == IF up THEN SubSeq(BigAdd(q, <<1>>) \o <<0, 0, 0, 0>>, 1, 4) ELSE q
       IN IF BigBitLen(q1) > MantBits
          THEN [sgn |-> sgn, m |-> BigShr(q1, 1), e |-> e + s + 1]
          ELSE [sgn |-> sgn, m |-> q1, e |-> e + s]

\* Number(n) for a small integer n >= 0
FInt(n) == FRound(1, <<n % LimbBase, n \div LimbBase>>, 0, FALSE)

FNeg(x) == [x EXCEPT !.sgn = 0 - x.sgn]

\* x + y
FAdd(x, y) ==
  IF x.sgn = 0 THEN y
  ELSE IF y.sgn = 0 THEN x
  ELSE LET emin == IF x.e < y.e THEN x.e ELSE y.e
           X    == BigShl(x.m, x.e - emin)
           Y    == BigShl(y.m, y.e - emin)
           c    == BigCmp(X, Y)
       IN IF x.sgn = y.sgn THEN FRound(x.sgn, BigAdd(X, Y), emin, FALSE)
          ELSE IF c = 0 THEN FZero
          ELSE IF c > 0 THEN FRound(x.sgn, BigSub(X, Y), emin, FALSE)
          ELSE FRound(y.sgn, BigSub(Y, X), emin, FALSE)

\* x * y
FMul(x, y) == FRound(x.sgn * y.sgn, BigMul(x.m, y.m), x.e + y.e, FALSE)

\* x / d for an integer d in 1..100
FDivInt(x, d) ==
  LET Q == BigDivSmall(BigShl(x.m, 2 * LimbBits), d) IN
  FRound(x.sgn, Q.q, x.e - 2 * LimbBits, Q.r # 0)

\* -1, 0, 1 as x < y, x = y, x > y
FCmp(x, y) ==
  IF x.sgn # y.sgn THEN (IF x.sgn > y.sgn THEN 1 ELSE -1)
  ELSE IF x.sgn = 0 THEN 0
  ELSE IF x.e # y.e THEN (IF x.e > y.e THEN x.sgn ELSE 0 - x.sgn)
  ELSE x.sgn * BigCmp(x.m, y.m)

FGe(x, y) == FCmp(x, y) >= 0
FGt(x, y) == FCmp(x, y) > 0
FMin(x, y) == IF FCmp(y, x) < 0 THEN y ELSE x
FMax(x, y) == IF FCmp(y, x) > 0 THEN y ELSE x

\* the decimal literal n/10 (0.1, 0.2, ...): the double nearest to it
FTenths(n) == FDivInt(FInt(n), 10)

(***************************************************************************)
(* State of one caller and its TreeOfThoughtsOptimizer.                    *)
(*                                                                         *)
(* options is a function whose domain holds the option keys that are set:  *)
(* an omitted option (undefined) is a key outside the domain.  An optional *)
(* value elsewhere is a sequence of length 0 (undefined) or 1.             *)
(* The display strings that only format numbers for the reader (the        *)
(* thoughts' reasoning, evaluation_notes, evaluation_summary,              *)
(* alternative_approaches) are not part of the state.  The paths that      *)
(* tot_analysis refers to are named there by their ids; the objects are    *)
(* the ones in paths.                                                      *)
(***************************************************************************)
VARIABLES
  originalPrompt,  \* constructor argument
  options,         \* constructor argument
  thoughts,        \* this.thoughts: the ids set in the map, in order
  rootThoughts,    \* optimize: const rootThoughts
  rootIdx,         \* exploreTree: position of the for loop over rootThoughts
  paths,           \* exploreTree: const paths
  pathThoughts,    \* explorePath: const pathThoughts
  step,            \* explorePath: let step
  pc,              \* position of the call
  result,          \* value returned by optimizePrompt, <<>> before it returns
  now,             \* Date.now()
  rng,             \* state of the generator behind Math.random()
  calls,           \* number of calls of optimizePrompt started
  prev,            \* options and result of the previous call, <<>> if none
  deployed,        \* which middleware of src/middleware.ts serves: 1 or 2, 0 if none
  request,         \* the request the browser has sent, <<>> if none
  response,        \* the response of the middleware to it, <<>> before it answers
  hops,            \* number of redirects the browser has followed
  storedValue,     \* useLocalStorage: the state set by setStoredValue
  closureValue,    \* useLocalStorage: storedValue as the current setValue closed over it
  localStorage,    \* the item po_prompt_history, <<>> if absent
  issued,          \* the calls made through setValue since the last render
  promptState,     \* HomeClient: state prompt
  out,             \* HomeClient: state out, <<>> for null
  loading,         \* HomeClient: state loading
  toast,           \* HomeClient: state toast
  timers           \* the pending setTimeout callbacks, in the order they were set

vars == <<originalPrompt, options, thoughts, rootThoughts, rootIdx, paths,
          pathThoughts, step, pc, result, now, rng, calls, prev,
          deployed, request, response, hops,
          storedValue, closureValue, localStorage, issued,
          promptState, out, loading, toast, timers>>

\* the state of the hooks of src/lib/hooks.ts
historyVars == <<storedValue, closureValue, localStorage, issued>>

\* the state of the component of src/components/HomeClient.tsx
homeVars == <<promptState, out, loading, toast, timers>>

\* the state of the optimizer and of the middleware
serverVars == <<originalPrompt, options, thoughts, rootThoughts, rootIdx, paths,
                pathThoughts, step, result, rng, prev, deployed, request, response, hops>>

\* no component is mounted
ClientIdle ==
  /\ storedValue = <<>>
  /\ closureValue = <<>>
  /\ localStorage = <<>>
  /\ issued = <<>>
  /\ promptState = ""
  /\ out = <<>>
  /\ loading = FALSE
  /\ toast = ""
  /\ timers = <<>>

maxSteps == 4

Has(o, k) == k \in DOMAIN o

\* `${o[k]}` in a template literal
Interpolate(o, k) == IF Has(o, k) THEN o[k] ELSE "undefined"

\* o[k] || alt
OrElse(o, k, alt) == IF Has(o, k) /\ o[k] # "" THEN o[k] ELSE alt

\* analyzeIntent with the keyword of the code rule left empty
analyzeIntentEmptyKeyword(prompt) ==
  LET p == ToLowerCase(prompt) IN
  IF Includes(p, "summar") THEN "Summarization"
  ELSE IF Includes(p, "translat") THEN "Translation"
  ELSE IF Includes(p, "explain") THEN "Explanation"
  ELSE IF Includes(p, "") THEN "Code Generation"
  ELSE IF Includes(p, "analyz") THEN "Analysis"
  ELSE IF Includes(p, "write") \/ Includes(p, "creat") THEN "Content Creation"
  ELSE IF Includes(p, "plan") THEN "Planning"
  ELSE IF Includes(p, "review") THEN "Review & Evaluation"
  ELSE "General Task"

\* analyzeIntent with the analyz rule tested before the summar rule
analyzeIntentAnalysisFirst(prompt) ==
  LET p == ToLowerCase(prompt) IN
  IF Includes(p, "analyz") THEN "Analysis"
  ELSE IF Includes(p, "summar") THEN "Summarization"
  ELSE IF Includes(p, "translat") THEN "Translation"
  ELSE IF Includes(p, "explain") THEN "Explanation"
  ELSE IF Includes(p, "code") THEN "Code Generation"
  ELSE IF Includes(p, "write") \/ Includes(p, "creat") THEN "Content Creation"
  ELSE IF Includes(p, "plan") THEN "Planning"
  ELSE IF Includes(p, "review") THEN "Review & Evaluation"
  ELSE "General Task"

analyzeIntent(prompt) ==
  LET p == ToLowerCase(prompt) IN
  IF Includes(p, "summar") THEN "Summarization"
  ELSE IF Includes(p, "translat") THEN "Translation"
  ELSE IF Includes(p, "explain") THEN "Explanation"
  ELSE IF Includes(p, "code") THEN "Code Generation"
  ELSE IF Includes(p, "analyz") THEN "Analysis"
  ELSE IF Includes(p, "write") \/ Includes(p, "creat") THEN "Content Creation"
  ELSE IF Includes(p, "plan") THEN "Planning"
  ELSE IF Includes(p, "review") THEN "Review & Evaluation"
  ELSE "General Task"

identifyIssues(prompt) ==
  (IF Len(prompt) < 20 THEN <<"too short">> ELSE <<>>)
  \o (IF Len(prompt) > 1000 THEN <<"too long">> ELSE <<>>)
  \o (IF ~(EndsWith(prompt, "?") \/ EndsWith(prompt, ".")) THEN <<"unclear instruction">> ELSE <<>>)
  \o (IF ~WordBoundaryTest(prompt, {"please", "can you", "how", "what", "why", "when", "where"})
      THEN <<"no clear question">> ELSE <<>>)
  \o (IF SplitSpaceCount(prompt) < 5 THEN <<"insufficient detail">> ELSE <<>>)

enhancePromptStructure(prompt) ==
  LET enhanced == Trim(prompt) IN
  IF ~EndsWith(enhanced, ".") /\ ~EndsWith(enhanced, "?") THEN enhanced \o "." ELSE enhanced

generateContextualEnhancements ==
  "Provide specific details, consider edge cases, and ensure comprehensive coverage."

generateRoleSpecificEnhancements(o) ==
  "apply your professional expertise and industry knowledge as a "
    \o ToLowerCase(OrElse(o, "role", "expert")) \o "."

applyStructuralOptimization(prompt, original) ==
  prompt \o " " \o enhancePromptStructure(original)
    \o " Follow this structure: 1) Analyze the request, 2) Develop your approach, 3) Execute systematically, 4) Validate your output."

applyContextualOptimization(prompt, original) ==
  prompt \o " " \o original \o " " \o generateContextualEnhancements
    \o " Consider relevant background, constraints, and success criteria."

applyRoleBasedOptimization(prompt, original, o) ==
  prompt \o " As a " \o Interpolate(o, "role") \o ", " \o original \o " "
    \o generateRoleSpecificEnhancements(o)

applyObjectiveOptimization(prompt, o) ==
  LET objective == Interpolate(o, "objective") IN
  IF ~Has(o, "objective") THEN prompt
  ELSE IF objective = "precision"
  THEN prompt \o " Be accurate, specific, and include supporting details. Verify information and provide evidence."
  ELSE IF objective = "brevity"
  THEN prompt \o " Be concise and direct. Focus on essential information only. Maximum efficiency."
  ELSE IF objective = "creativity"
  THEN prompt \o " Think creatively and explore multiple approaches. Consider unconventional solutions."
  ELSE IF objective = "safety"
  THEN prompt \o " Consider safety implications and ethical considerations. Include warnings when appropriate."
  ELSE IF objective = "speed"
  THEN prompt \o " Provide quick, actionable responses. Focus on immediate practical value."
  ELSE prompt

applyReasoningLevel(prompt, o) ==
  LET reasoning == Interpolate(o, "reasoning") IN
  IF ~Has(o, "reasoning") THEN prompt
  ELSE IF reasoning = "high"
  THEN prompt \o " Provide detailed step-by-step reasoning and explain your methodology."
  ELSE IF reasoning = "medium"
  THEN prompt \o " Include brief explanations of your approach."
  ELSE IF reasoning = "low"
  THEN prompt \o " Focus on the final result."
  ELSE prompt

langNames(code) ==
  IF code \in {"es-ES", "es-MX"} THEN <<"Spanish">>
  ELSE IF code = "fr-FR" THEN <<"French">>
  ELSE IF code = "de-DE" THEN <<"German">>
  ELSE IF code = "it-IT" THEN <<"Italian">>
  ELSE IF code = "pt-BR" THEN <<"Portuguese">>
  ELSE <<>>

languageDirective(o) ==
  IF Has(o, "defaultLanguage") /\ o["defaultLanguage"] # ""
     /\ ~StartsWith(o["defaultLanguage"], "en")
  THEN " Respond in "
         \o (IF langNames(o["defaultLanguage"]) # <<>>
             THEN langNames(o["defaultLanguage"])[1] ELSE "the specified language")
         \o "."
  ELSE ""

roleDeclaration(o) ==
  "You are a "
    \o (IF Has(o, "role") /\ ToLowerCase(o["role"]) # "" THEN ToLowerCase(o["role"]) ELSE "expert")
    \o "."

applyOptimizationStrategy(strategyId, original, o) ==
  LET base0 == roleDeclaration(o)
      base1 == IF strategyId = "structural" THEN applyStructuralOptimization(base0, original)
               ELSE IF strategyId = "contextual" THEN applyContextualOptimization(base0, original)
               ELSE IF strategyId = "role_based" THEN applyRoleBasedOptimization(base0, original, o)
               ELSE base0
      base2 == applyObjectiveOptimization(base1, o)
      base3 == applyReasoningLevel(base2, o)
  IN base3 \o languageDirective(o)

applyRefinement(strategyId, original, o) ==
  LET optimized == applyOptimizationStrategy(strategyId, original, o) IN
  IF strategyId = "structural"
  THEN optimized \o " Ensure all components are clearly defined and logically ordered."
  ELSE IF strategyId = "contextual"
  THEN optimized \o " Verify all necessary context is provided and constraints are clear."
  ELSE IF strategyId = "role_based"
  THEN optimized \o " Confirm professional standards and domain expertise are properly integrated."
  ELSE optimized

generateAnalysisThought(approachId, original, o) ==
  LET intent == analyzeIntent(original)
      issues == identifyIssues(original)
  IN IF approachId = "structural"
     THEN "STRUCTURAL ANALYSIS: Intent=\"" \o intent \o "\". Issues found: " \o Join(issues, ", ")
            \o ". Structure needs: clear role definition, specific instructions, output format specification."
     ELSE IF approachId = "contextual"
     THEN "CONTEXTUAL ANALYSIS: Intent=\"" \o intent
            \o "\". Missing context: domain expertise, constraints, examples. Needs: background information, success criteria, failure conditions."
     ELSE IF approachId = "role_based"
     THEN "ROLE-BASED ANALYSIS: Intent=\"" \o intent \o "\" from " \o Interpolate(o, "role")
            \o " perspective. Professional requirements: domain knowledge, industry standards, specialized terminology."
     ELSE "ANALYSIS: Intent=\"" \o intent \o "\". General optimization needed."

generateEnhancementThought(approachId, o) ==
  IF approachId = "structural"
  THEN "STRUCTURAL ENHANCEMENT: Add clear role assignment, step-by-step instructions, specific output format requirements, and success metrics."
  ELSE IF approachId = "contextual"
  THEN "CONTEXTUAL ENHANCEMENT: Include relevant background, define constraints, provide examples, specify domain context and expected quality standards."
  ELSE IF approachId = "role_based"
  THEN "ROLE-BASED ENHANCEMENT: Incorporate " \o Interpolate(o, "role")
         \o " expertise, industry-specific terminology, professional standards, and domain-specific requirements."
  ELSE "ENHANCEMENT: General improvements applied."

generateOptimizationThought(approachId, original, o) ==
  "OPTIMIZATION APPLIED: " \o applyOptimizationStrategy(approachId, original, o)

generateRefinementThought(approachId, original, o) ==
  "FINAL REFINEMENT: " \o applyRefinement(approachId, original, o)

\* the default branch (approach.prompt) needs step > 3, which maxSteps excludes
simulateThoughtGeneration(approachId, stp, original, o) ==
  IF stp = 0 THEN generateAnalysisThought(approachId, original, o)
  ELSE IF stp = 1 THEN generateEnhancementThought(approachId, o)
  ELSE IF stp = 2 THEN generateOptimizationThought(approachId, original, o)
  ELSE generateRefinementThought(approachId, original, o)

\* let score = 0 in place of the base score
baseScoreNone == FZero

baseScore == FTenths(5)

\* if (condition) score += bonus
addIf(score, condition, bonus) == IF condition THEN FAdd(score, bonus) ELSE score

\* the confidence that evaluateThought derives from the score
confidenceOf(score) ==
  [confidence |-> IF FGe(score, FTenths(8)) THEN "sure"
                  ELSE IF FGe(score, FTenths(4)) THEN "maybe"
                  ELSE "impossible",
   score      |-> score]

evaluateThought(content, stp, o) ==
  LET length       == Len(content)
      hasSpecifics == WordBoundaryTest(content, {"specific", "detailed", "clear", "precise"})
      hasStructure == WordBoundaryTest(content, {"step", "structure", "format", "organize"})
      hasRole      == Includes(content, OrElse(o, "role", ""))
  IN confidenceOf(
       addIf(addIf(addIf(addIf(addIf(baseScore,
                                     hasSpecifics, FTenths(2)),
                               hasStructure, FTenths(2)),
                         hasRole, FTenths(1)),
                   length > 100 /\ length < 500, FTenths(1)),
             stp < 2, FTenths(1)))

\* String(Date.now() + Math.random()): the random draw is the fraction
nonceString(clock, random) == ToString(clock) \o "." \o ToString(random)

\* the ToTThought that generateThought builds
thoughtOf(approachId, stp, parentId, thoughtContent, evaluation, clock, random) ==
  [id               |-> approachId \o "_" \o ToString(stp) \o "_" \o nonceString(clock, random),
   content          |-> thoughtContent,
   step             |-> stp,
   confidence       |-> evaluation.confidence,
   evaluation_score |-> evaluation.score,
   parent_id        |-> parentId,
   children         |-> <<>>]

\* generateThought after simulateThoughtGeneration returned thoughtContent
evaluatedThought(approachId, stp, parentId, thoughtContent, o, clock, random) ==
  thoughtOf(approachId, stp, parentId, thoughtContent,
            evaluateThought(thoughtContent, stp, o), clock, random)

\* generateThought with the nonce of the id copied into the content
generateThoughtStamped(approachId, stp, parentId, original, o, clock, random) ==
  evaluatedThought(approachId, stp, parentId,
                   simulateThoughtGeneration(approachId, stp, original, o)
                     \o " #" \o nonceString(clock, random),
                   o, clock, random)

generateThought(approachId, stp, parentId, original, o, clock, random) ==
  evaluatedThought(approachId, stp, parentId,
                   simulateThoughtGeneration(approachId, stp, original, o),
                   o, clock, random)

deriveNextApproach(currentThought) == SplitFirst(currentThought.id, "_")

extractFinalPrompt(finalThought) ==
  LET content == finalThought.content IN
  IF Includes(content, "FINAL REFINEMENT:") THEN Trim(SplitSecond(content, "FINAL REFINEMENT:"))
  ELSE IF Includes(content, "OPTIMIZATION APPLIED:") THEN Trim(SplitSecond(content, "OPTIMIZATION APPLIED:"))
  ELSE content

RECURSIVE SumScores(_, _)
\* pathThoughts.reduce((sum, thought) => sum + thought.evaluation_score, 0) up to index i
SumScores(ths, i) ==
  IF i = 0 THEN FZero ELSE FAdd(SumScores(ths, i - 1), ths[i].evaluation_score)

CountSure(ths) == Cardinality({i \in 1..Len(ths) : ths[i].confidence = "sure"})

\* the ToTPath that explorePath returns for the thoughts it collected
pathOf(ths) ==
  [id               |-> "path_" \o ths[1].id,
   thoughts         |-> ths,
   final_prompt     |-> extractFinalPrompt(ths[Len(ths)]),
   total_score      |-> FDivInt(SumScores(ths, Len(ths)), Len(ths)),
   confidence_level |-> FDivInt(FInt(CountSure(ths)), Len(ths))]

calculatePathScore(path) ==
  LET baseScoreOfPath == path.total_score
      confidenceBonus == FMul(path.confidence_level, FTenths(3))
      lengthPenalty   == IF Len(path.final_prompt) > 1000 THEN FNeg(FTenths(1)) ELSE FZero
      depthBonus      == FMul(FMin(FDivInt(FInt(Len(path.thoughts)), maxSteps), FInt(1)), FTenths(2))
  IN FAdd(FAdd(FAdd(baseScoreOfPath, confidenceBonus), lengthPenalty), depthBonus)

RECURSIVE BestFromLowest(_, _, _)
\* the for loop of selectBestPath with the comparison the wrong way round
BestFromLowest(ps, i, best) ==
  IF i > Len(ps) THEN best
  ELSE IF FGt(calculatePathScore(best), calculatePathScore(ps[i]))
  THEN BestFromLowest(ps, i + 1, ps[i])
  ELSE BestFromLowest(ps, i + 1, best)

RECURSIVE BestFrom(_, _, _)
\* the for loop of selectBestPath over paths.slice(1)
BestFrom(ps, i, best) ==
  IF i > Len(ps) THEN best
  ELSE IF FGt(calculatePathScore(ps[i]), calculatePathScore(best)) THEN BestFrom(ps, i + 1, ps[i])
  ELSE BestFrom(ps, i + 1, best)

\* <<>> stands for the Error thrown on an empty list
selectBestPath(ps) == IF Len(ps) = 0 THEN <<>> ELSE <<BestFrom(ps, 2, ps[1])>>

objectiveConstraints(o) ==
  LET objective == Interpolate(o, "objective") IN
  IF ~Has(o, "objective") THEN <<>>
  ELSE IF objective = "precision"
  THEN <<"Include specific examples and evidence", "Use precise terminology", "Verify accuracy of claims">>
  ELSE IF objective = "brevity"
  THEN <<"Maximum 200 words unless specified", "Focus on essential information", "Eliminate redundancy">>
  ELSE IF objective = "creativity"
  THEN <<"Explore multiple approaches", "Use analogies and creative examples", "Consider unconventional solutions">>
  ELSE IF objective = "safety"
  THEN <<"Include safety warnings when applicable", "Consider ethical implications", "Avoid harmful recommendations">>
  ELSE IF objective = "speed"
  THEN <<"Prioritize actionable information", "Use simple, direct language", "Focus on immediate solutions">>
  ELSE <<>>

contentTypeConstraints(o) ==
  IF Has(o, "contentType") /\ o["contentType"] = "video"
  THEN <<"Include visual and audio descriptions", "Consider timing and pacing">>
  ELSE IF Has(o, "contentType") /\ o["contentType"] = "presentation"
  THEN <<"Structure for slide format", "Include key points and visuals">>
  ELSE <<>>

pathConstraints(path) ==
  LET pathStrategy == IF Len(path.thoughts) > 0 THEN SplitFirst(path.thoughts[1].id, "_") ELSE "" IN
  IF pathStrategy = "structural" THEN <<"Maintain clear logical structure">>
  ELSE IF pathStrategy = "contextual" THEN <<"Provide comprehensive context">>
  ELSE <<>>

\* generateConstraints with the contentType items pushed before the
\* objective items
generateConstraintsContentFirst(path, o) ==
  contentTypeConstraints(o) \o objectiveConstraints(o) \o pathConstraints(path)

generateConstraints(path, o) ==
  objectiveConstraints(o) \o contentTypeConstraints(o) \o pathConstraints(path)

generateExamples(intent) ==
  IF intent = "Summarization"
  THEN <<"Key point 1: [Main conclusion with supporting evidence]",
         "Key point 2: [Secondary insight with context]">>
  ELSE IF intent = "Code Generation"
  THEN <<"// Example with descriptive variable names",
         "function processUserData(userData) { return validatedResult; }">>
  ELSE IF intent = "Analysis"
  THEN <<"Strengths: [Specific positive aspects with examples]",
         "Opportunities: [Areas for improvement with actionable suggestions]">>
  ELSE IF intent = "Content Creation"
  THEN <<"Introduction: [Hook + context + thesis]", "Body: [Evidence + analysis + examples]">>
  ELSE <<>>

detectFormat(prompt) ==
  LET p == ToLowerCase(prompt) IN
  IF Includes(p, "json") THEN "JSON"
  ELSE IF Includes(p, "table") \/ Includes(p, "markdown") THEN "Table/Markdown"
  ELSE IF Includes(p, "bullet") \/ Includes(p, "list") THEN "Bullet Points"
  ELSE IF Includes(p, "step") THEN "Step-by-step"
  ELSE "Structured Text"

parametersOf(o, format) ==
  [role         |-> OrElse(o, "role", "Subject-matter expert"),
   language     |-> OrElse(o, "defaultLanguage", "en-US"),
   objective    |-> OrElse(o, "objective", "precision"),
   reasoning    |-> OrElse(o, "reasoning", "medium"),
   content_type |-> OrElse(o, "contentType", "text"),
   format       |-> format]

IntMin(a, b) == IF a < b THEN a ELSE b
IntMax(a, b) == IF a > b THEN a ELSE b

\* metadataOf with optimized_length taken from the content of the last
\* thought, before extractFinalPrompt cut it
metadataOfRawLength(bestPath, allPaths, original) ==
  [original_length       |-> Len(original),
   optimized_length      |-> Len(bestPath.thoughts[Len(bestPath.thoughts)].content),
   complexity_score      |-> FInt(IntMin(100, IntMax(20, Len(bestPath.thoughts) * 15))),
   clarity_score         |-> FMin(FInt(100), FMax(FInt(40), FMul(bestPath.confidence_level, FInt(100)))),
   tot_exploration_paths |-> Len(allPaths),
   best_path_confidence  |-> bestPath.confidence_level,
   reasoning_depth       |-> Len(bestPath.thoughts)]

\* metadataOf with complexity_score counted from the words of the prompt and
\* the upper clamp forgotten
metadataOfUnclamped(bestPath, allPaths, original) ==
  [original_length       |-> Len(original),
   optimized_length      |-> Len(bestPath.final_prompt),
   complexity_score      |-> FInt(IntMax(20, SplitSpaceCount(original) * 15)),
   clarity_score         |-> FMin(FInt(100), FMax(FInt(40), FMul(bestPath.confidence_level, FInt(100)))),
   tot_exploration_paths |-> Len(allPaths),
   best_path_confidence  |-> bestPath.confidence_level,
   reasoning_depth       |-> Len(bestPath.thoughts)]

\* the metadata object of generateFinalResult
metadataOf(bestPath, allPaths, original) ==
  [original_length       |-> Len(original),
   optimized_length      |-> Len(bestPath.final_prompt),
   complexity_score      |-> FInt(IntMin(100, IntMax(20, Len(bestPath.thoughts) * 15))),
   clarity_score         |-> FMin(FInt(100), FMax(FInt(40), FMul(bestPath.confidence_level, FInt(100)))),
   tot_exploration_paths |-> Len(allPaths),
   best_path_confidence  |-> bestPath.confidence_level,
   reasoning_depth       |-> Len(bestPath.thoughts)]

generateFinalResult(bestPath, allPaths, original, o) ==
  LET intent == analyzeIntent(original) IN
  [intent           |-> intent,
   optimized_prompt |-> bestPath.final_prompt,
   parameters       |-> parametersOf(o, detectFormat(original)),
   constraints      |-> generateConstraints(bestPath, o),
   examples         |-> <<generateExamples(intent)>>,
   metadata         |-> metadataOf(bestPath, allPaths, original),
   tot_analysis     |-> [explored_paths |-> [i \in 1..Len(allPaths) |-> allPaths[i].id],
                         selected_path  |-> <<bestPath.id>>]]

fallbackOptimization(original, o) ==
  LET optimized == "You are a " \o OrElse(o, "role", "expert") \o ". " \o original
                     \o " Please be " \o OrElse(o, "objective", "precise") \o " in your response."
  IN
  [intent           |-> IF Includes(original, "summar") THEN "Summarization" ELSE "General Task",
   optimized_prompt |-> optimized,
   parameters       |-> parametersOf(o, "Text"),
   constraints      |-> <<"Be accurate and helpful">>,
   examples         |-> << <<>> >>,
   metadata         |->
     [original_length       |-> Len(original),
      optimized_length      |-> Len(optimized),
      complexity_score      |-> FInt(50),
      clarity_score         |-> FInt(70),
      tot_exploration_paths |-> 1,
      best_path_confidence  |-> FTenths(6),
      reasoning_depth       |-> 1],
   tot_analysis     |-> [explored_paths |-> <<>>, selected_path |-> <<>>]]

\* steps 3 and 4 of optimize(): the value returned, or <<>> when
\* selectBestPath throws
optimize(exploredPaths, original, o) ==
  LET best == selectBestPath(exploredPaths) IN
  IF best = <<>> THEN <<>>
  ELSE <<generateFinalResult(best[1], exploredPaths, original, o)>>

\* the try/catch of optimizePrompt: the value returned, or <<>> when the
\* call throws
optimizePrompt(exploredPaths, original, o) ==
  LET returned == optimize(exploredPaths, original, o) IN
  IF returned = <<>> THEN <<fallbackOptimization(original, o)>> ELSE returned

(***************************************************************************)
(* Inputs.                                                                 *)
(***************************************************************************)
OptionKeys == {"role", "objective", "reasoning", "defaultLanguage", "contentType"}

\* an options object from five optional values
MakeOptions(role, objective, reasoning, language, contentType) ==
  LET given == [k \in OptionKeys |->
                  IF k = "role" THEN role
                  ELSE IF k = "objective" THEN objective
                  ELSE IF k = "reasoning" THEN reasoning
                  ELSE IF k = "defaultLanguage" THEN language
                  ELSE contentType]
  IN [k \in {x \in OptionKeys : given[x] # <<>>} |-> given[k][1]]

EmptyOptions == MakeOptions(<<>>, <<>>, <<>>, <<>>, <<>>)

DocumentedDefault(k) ==
  IF k = "role" THEN "Subject-matter expert"
  ELSE IF k = "objective" THEN "precision"
  ELSE IF k = "reasoning" THEN "medium"
  ELSE IF k = "defaultLanguage" THEN "en-US"
  ELSE "text"

\* o with every omitted option passed explicitly as its documented default
WithDefaults(o) == [k \in OptionKeys |-> IF Has(o, k) THEN o[k] ELSE DocumentedDefault(k)]

DefaultOptions == WithDefaults(EmptyOptions)

Roles == {"Senior software engineer", "Subject-matter expert", "teacher", ""}
Objectives == {"precision", "brevity", "creativity", "safety", "speed"}
Reasonings == {"low", "medium", "high"}
Languages == {"en-US", "en-GB", "fr-FR", "ja-JP"}
ContentTypes == {"text", "video", "image", "audio", "presentation"}

\* the codes of the locale list
LOCALES ==
  {"en-US", "en-GB", "en-CA", "en-AU", "es-ES", "es-MX", "es-AR", "es-CL", "fr-FR", "fr-CA",
   "de-DE", "it-IT", "pt-PT", "pt-BR", "nl-NL", "sv-SE", "no-NO", "da-DK", "fi-FI", "pl-PL",
   "cs-CZ", "sk-SK", "ro-RO", "hu-HU", "ru-RU", "uk-UA", "tr-TR", "ar-SA", "he-IL", "hi-IN",
   "bn-BD", "ur-PK", "id-ID", "ms-MY", "th-TH", "vi-VN", "zh-CN", "zh-TW", "ja-JP", "ko-KR"}

ValuesOf(k) ==
  IF k = "role" THEN Roles
  ELSE IF k = "objective" THEN Objectives
  ELSE IF k = "reasoning" THEN Reasonings
  ELSE IF k = "defaultLanguage" THEN Languages
  ELSE ContentTypes

\* o with option k set to v
WithOption(o, k, v) == [x \in (DOMAIN o) \cup {k} |-> IF x = k THEN v ELSE o[x]]

\* o with one option set, to each of its values
OneChanged(o) == UNION {{WithOption(o, k, v) : v \in ValuesOf(k)} : k \in OptionKeys}

\* every pair of objective and contentType
ObjectiveContentPairs ==
  {WithOption(WithOption(EmptyOptions, "objective", ob), "contentType", ct) :
     ob \in Objectives, ct \in ContentTypes}

\* option records with one enumerated option set to a value outside its enum
OutOfRangeOptions ==
  {WithOption(EmptyOptions, "objective", "accuracy"),
   WithOption(EmptyOptions, "reasoning", "extreme"),
   WithOption(EmptyOptions, "contentType", "podcast")}

\* o with every enumerated option whose value is outside its enum passed as
\* the documented default
WithinRange(o) ==
  [k \in DOMAIN o |->
     IF k \in {"objective", "reasoning", "contentType"} /\ o[k] \notin ValuesOf(k)
     THEN DocumentedDefault(k) ELSE o[k]]

\* few option records, for the calls that vary the prompt
FewOptions ==
  {EmptyOptions,
   WithOption(EmptyOptions, "defaultLanguage", "fr-FR"),
   WithOption(EmptyOptions, "role", "teacher")}

\* many option records, for the calls that vary the options
ManyOptions ==
  OneChanged(EmptyOptions) \cup ObjectiveContentPairs \cup {DefaultOptions} \cup OutOfRangeOptions

Vocabulary == {"Summarize", "example.", "FINAL REFINEMENT:"}

RECURSIVE PromptsOfLength(_, _)
\* the prompts of k words of the vocabulary, separated by single spaces
PromptsOfLength(words, k) ==
  IF k = 0 THEN {""}
  ELSE IF k = 1 THEN words
  ELSE {p \o " " \o w : p \in PromptsOfLength(words, k - 1), w \in words}

PromptsOver(words) == UNION {PromptsOfLength(words, k) : k \in 0..MaxWords}

RECURSIVE Repeat(_, _)
\* String.prototype.repeat
Repeat(s, n) ==
  IF n = 0 THEN ""
  ELSE IF n % 2 = 1 THEN s \o Repeat(s, n - 1)
  ELSE LET half == Repeat(s, n \div 2) IN half \o half

\* a prompt of more than 1000 characters that repeats a trigger word
LongPrompt == Repeat("analyze ", 130)

ManyPrompts == PromptsOver(Vocabulary) \cup {LongPrompt}

FewPrompts == {"", "Summarize this article"}

Inputs == (ManyPrompts \X FewOptions) \cup (FewPrompts \X ManyOptions)

\* one word per rule of analyzeIntent, in mixed case, and a word of no rule
IntentVocabulary ==
  {"Summarize", "translate", "EXPLAIN", "code", "AnalyZe", "write", "Create", "plan",
   "REVIEW", "hello"}

IntentInputs == PromptsOver(IntentVocabulary) \X {EmptyOptions}

(***************************************************************************)
(* optimizePrompt, step by step.                                           *)
(***************************************************************************)
InitOptimizer ==
  /\ thoughts = <<>>
  /\ rootThoughts = <<>>
  /\ rootIdx = 0
  /\ paths = <<>>
  /\ pathThoughts = <<>>
  /\ step = 0
  /\ pc = "optimize"
  /\ result = <<>>
  /\ now = 1700
  /\ rng \in 1..NumSeeds
  /\ calls = 1
  /\ prev = <<>>
  /\ deployed = 0
  /\ request = <<>>
  /\ response = <<>>
  /\ hops = 0
  /\ ClientIdle

Init ==
  /\ \E input \in Inputs :
       /\ originalPrompt = input[1]
       /\ options = input[2]
  /\ InitOptimizer

InitIntent ==
  /\ \E input \in IntentInputs :
       /\ originalPrompt = input[1]
       /\ options = input[2]
  /\ InitOptimizer

\* optimize(), step 1: one root thought per approach
GenerateInitialThoughts ==
  /\ pc = "optimize"
  /\ \E t1 \in {generateThought("structural", 0, <<>>, originalPrompt, options, now, rng)},
        t2 \in {generateThought("contextual", 0, <<>>, originalPrompt, options, now, rng + 1)},
        t3 \in {generateThought("role_based", 0, <<>>, originalPrompt, options, now, rng + 2)} :
       /\ rootThoughts' = <<t1, t2, t3>>
        /\ thoughts' = thoughts \o <<t1.id, t2.id, t3.id>>
  /\ rng' = rng + 3
  /\ rootIdx' = 1
  /\ pc' = "exploreTree"
  /\ UNCHANGED <<originalPrompt, options, paths, pathThoughts, step, result, now, calls, prev>>
  /\ UNCHANGED <<deployed, request, response, hops>>
  /\ UNCHANGED <<historyVars, homeVars>>

\* exploreTree: the head of the for loop over the root thoughts, and the
\* filter that ends it
ExploreTree ==
  /\ pc = "exploreTree"
  /\ IF rootIdx > Len(rootThoughts)
     THEN /\ paths' = SelectSeq(paths, LAMBDA path : Len(path.thoughts) > 0)
          /\ pc' = "select"
          /\ UNCHANGED <<rootIdx, pathThoughts, step>>
     ELSE IF rootThoughts[rootIdx].confidence = "impossible"
     THEN /\ rootIdx' = rootIdx + 1
          /\ UNCHANGED <<paths, pc, pathThoughts, step>>
     ELSE /\ pathThoughts' = <<rootThoughts[rootIdx]>>
          /\ step' = 1
          /\ pc' = "explorePath"
          /\ UNCHANGED <<paths, rootIdx>>
  /\ UNCHANGED <<originalPrompt, options, thoughts, rootThoughts, result, now, rng, calls, prev>>
  /\ UNCHANGED <<deployed, request, response, hops>>
  /\ UNCHANGED <<historyVars, homeVars>>

\* explorePath without the break for good paths
earlyTerminationNever(nextThought, stp) == FALSE

\* explorePath: the break for good paths
earlyTermination(nextThought, stp) == nextThought.confidence = "sure" /\ stp >= 2

\* explorePath: one evaluation of the loop condition and, if it holds, one
\* iteration of the loop
ExplorePathStep ==
  /\ pc = "explorePath"
  /\ LET currentThought == pathThoughts[Len(pathThoughts)] IN
     IF step < maxSteps /\ currentThought.confidence # "impossible"
     THEN \E nextThought \in {generateThought(deriveNextApproach(currentThought), step,
                                               <<currentThought.id>>, originalPrompt,
                                               options, now, rng)} :
             /\ thoughts' = Append(thoughts, nextThought.id)
             /\ pathThoughts' =
                  Append([pathThoughts EXCEPT ![Len(pathThoughts)].children =
                            Append(currentThought.children, nextThought.id)],
                         nextThought)
             /\ rng' = rng + 1
             /\ IF earlyTermination(nextThought, step)
                THEN pc' = "endPath" /\ UNCHANGED step
                ELSE step' = step + 1 /\ UNCHANGED pc
     ELSE /\ pc' = "endPath"
          /\ UNCHANGED <<thoughts, pathThoughts, rng, step>>
  /\ UNCHANGED <<originalPrompt, options, rootThoughts, rootIdx, paths, result, now, calls, prev>>
  /\ UNCHANGED <<deployed, request, response, hops>>
  /\ UNCHANGED <<historyVars, homeVars>>

\* explorePath after the loop, and paths.push(path) in exploreTree
FinishPath ==
  /\ pc = "endPath"
  /\ paths' = Append(paths, pathOf(pathThoughts))
  /\ rootIdx' = rootIdx + 1
  /\ pc' = "exploreTree"
  /\ UNCHANGED <<originalPrompt, options, thoughts, rootThoughts, pathThoughts, step,
                 result, now, rng, calls, prev>>
  /\ UNCHANGED <<deployed, request, response, hops>>
  /\ UNCHANGED <<historyVars, homeVars>>

\* optimize(), steps 3 and 4, inside the try/catch of optimizePrompt
SelectAndReturn ==
  /\ pc = "select"
  /\ result' = optimizePrompt(paths, originalPrompt, options)
  /\ pc' = IF result' = <<>> THEN "threw" ELSE "done"
  /\ UNCHANGED <<originalPrompt, options, thoughts, rootThoughts, rootIdx, paths,
                 pathThoughts, step, now, rng, calls, prev>>
  /\ UNCHANGED <<deployed, request, response, hops>>
  /\ UNCHANGED <<historyVars, homeVars>>

\* the caller calls optimizePrompt again for the same prompt, with the same
\* options, with the omitted options passed as their documented defaults, or
\* with the out-of-range options passed as their documented defaults; each
\* call constructs a new TreeOfThoughtsOptimizer
CallAgain ==
  /\ pc = "done"
  /\ calls < MaxCalls
  /\ \E o \in {options, WithDefaults(options), WithinRange(options)} :
       /\ options' = o
       /\ prev' = <<[options |-> options, result |-> result[1],
                     variant |-> IF o = options THEN "same"
                                 ELSE IF o = WithDefaults(options) THEN "defaults"
                                 ELSE "inrange"]>>
  /\ thoughts' = <<>>
  /\ rootThoughts' = <<>>
  /\ rootIdx' = 0
  /\ paths' = <<>>
  /\ pathThoughts' = <<>>
  /\ step' = 0
  /\ result' = <<>>
  /\ now' = now + 1
  /\ calls' = calls + 1
  /\ pc' = "optimize"
  /\ UNCHANGED <<originalPrompt, rng>>
  /\ UNCHANGED <<deployed, request, response, hops>>
  /\ UNCHANGED <<historyVars, homeVars>>

\* one call of optimizePrompt
NextOnce ==
  \/ GenerateInitialThoughts
  \/ ExploreTree
  \/ ExplorePathStep
  \/ FinishPath
  \/ SelectAndReturn

Next ==
  \/ GenerateInitialThoughts
  \/ ExploreTree
  \/ ExplorePathStep
  \/ FinishPath
  \/ SelectAndReturn
  \/ CallAgain

\* calls that vary the prompt and the options, repeated
Spec == Init /\ [][Next]_vars

\* single calls over the prompts built from the words of the intent rules
SpecIntent == InitIntent /\ [][NextOnce]_vars

(***************************************************************************)
(* The single-pass optimizePrompt of src/unnamed/part_003, lines 467-778.   *)
(* Its functions that share a name with one of src/lib/optimizer.ts carry   *)
(* the suffix _part003.                                                     *)
(***************************************************************************)
analyzeIntent_part003(prompt) ==
  LET p == ToLowerCase(prompt) IN
  IF Includes(p, "summar") THEN "Summarization"
  ELSE IF Includes(p, "translat") THEN "Translation"
  ELSE IF Includes(p, "explain") \/ Includes(p, "eli5") THEN "Explanation"
  ELSE IF Includes(p, "code") \/ Includes(p, "function") THEN "Code Generation"
  ELSE IF Includes(p, "fix") \/ Includes(p, "debug") THEN "Code Debugging"
  ELSE IF Includes(p, "analyz") \/ Includes(p, "review") THEN "Analysis"
  ELSE IF Includes(p, "write") \/ Includes(p, "creat") THEN "Content Creation"
  ELSE IF Includes(p, "plan") \/ Includes(p, "strateg") THEN "Planning"
  ELSE IF Includes(p, "extract") \/ Includes(p, "parse") THEN "Data Extraction"
  ELSE IF Includes(p, "compar") \/ Includes(p, "vs") THEN "Comparison"
  ELSE "General Task"

RECURSIVE ReplaceAllFrom(_, _, _, _)
\* s.replace(/w/gi, r) from position i of s on, for a lower-case literal w
ReplaceAllFrom(s, w, r, i) ==
  IF i > Len(s) THEN ""
  ELSE IF MatchAtCI(s, w, i) THEN r \o ReplaceAllFrom(s, w, r, i + Len(w))
  ELSE CharAt(s, i) \o ReplaceAllFrom(s, w, r, i + 1)

\* s.replace(/w/gi, r)
ReplaceAll(s, w, r) == ReplaceAllFrom(s, w, r, 1)

enhanceMainInstruction(original, intent, objective) ==
  (IF objective = "precision"
   THEN ReplaceAll(ReplaceAll(ReplaceAll(original,
                                         "summarize", "create a precise summary of"),
                              "explain", "provide a detailed explanation of"),
                   "analyze", "conduct a thorough analysis of")
   ELSE IF objective = "brevity"
   THEN ReplaceAll(ReplaceAll(ReplaceAll(original,
                                         "summarize", "briefly summarize"),
                              "explain", "concisely explain"),
                   "create", "generate a concise")
   ELSE original)
  \o " "

addFormatSpecifications(contentType, objective) ==
  IF contentType = "text"
  THEN IF objective = "brevity"
       THEN "Use bullet points or numbered lists when appropriate. "
       ELSE "Structure your response with clear headings and paragraphs. "
  ELSE IF contentType = "video"
  THEN "Include timestamps, scene descriptions, and visual elements. "
  ELSE IF contentType = "image"
  THEN "Describe visual elements, composition, colors, and style details. "
  ELSE IF contentType = "audio"
  THEN "Include audio cues, timing, and sound descriptions. "
  ELSE IF contentType = "presentation"
  THEN "Structure as slides with titles, bullet points, and speaker notes. "
  ELSE ""

addObjectiveConstraints(objective) ==
  IF objective = "precision"
  THEN " Be accurate and include specific details and examples."
  ELSE IF objective = "brevity"
  THEN " Keep responses concise and focus on essential information only."
  ELSE IF objective = "creativity"
  THEN " Use creative approaches and consider multiple perspectives."
  ELSE IF objective = "safety"
  THEN " Prioritize safety considerations and include relevant warnings."
  ELSE IF objective = "speed"
  THEN " Provide quick, actionable responses without unnecessary elaboration."
  ELSE ""

\* the languageMap of getLanguageName
languageMap ==
  [code \in {"es-ES", "es-MX", "es-AR", "es-CL", "fr-FR", "fr-CA", "de-DE", "it-IT", "pt-PT",
             "pt-BR", "nl-NL", "ru-RU", "uk-UA", "zh-CN", "zh-TW", "ja-JP", "ko-KR"} |->
     IF code \in {"es-ES", "es-MX", "es-AR", "es-CL"} THEN "Spanish"
     ELSE IF code \in {"fr-FR", "fr-CA"} THEN "French"
     ELSE IF code = "de-DE" THEN "German"
     ELSE IF code = "it-IT" THEN "Italian"
     ELSE IF code \in {"pt-PT", "pt-BR"} THEN "Portuguese"
     ELSE IF code = "nl-NL" THEN "Dutch"
     ELSE IF code = "ru-RU" THEN "Russian"
     ELSE IF code = "uk-UA" THEN "Ukrainian"
     ELSE IF code = "zh-CN" THEN "Chinese (Simplified)"
     ELSE IF code = "zh-TW" THEN "Chinese (Traditional)"
     ELSE IF code = "ja-JP" THEN "Japanese"
     ELSE "Korean"]

getLanguageName(code) == IF code \in DOMAIN languageMap THEN languageMap[code] ELSE "English"

\* o is the Required<OptimizeOptions> that optimizePrompt passes
generateOptimizedPrompt(original, intent, o) ==
  Trim("You are a " \o ToLowerCase(o["role"]) \o ". "
       \o enhanceMainInstruction(original, intent, o["objective"])
       \o addFormatSpecifications(o["contentType"], o["objective"])
       \o (IF ~StartsWith(o["defaultLanguage"], "en")
           THEN " Respond in " \o getLanguageName(o["defaultLanguage"]) \o "."
           ELSE "")
       \o (IF o["reasoning"] = "high"
           THEN " Provide detailed reasoning and step-by-step thinking."
           ELSE IF o["reasoning"] = "medium"
           THEN " Include brief explanations for key decisions."
           ELSE "")
       \o addObjectiveConstraints(o["objective"]))

generateConstraints_part003(objective, reasoning, contentType) ==
  (IF objective = "precision"
   THEN <<"Must include specific examples and evidence", "Verify factual accuracy",
          "Use precise terminology">>
   ELSE IF objective = "brevity"
   THEN <<"Maximum 200 words unless specified otherwise", "Use bullet points for lists",
          "Avoid redundant information">>
   ELSE IF objective = "creativity"
   THEN <<"Explore multiple solutions or perspectives",
          "Use analogies and metaphors when helpful", "Think outside conventional approaches">>
   ELSE IF objective = "safety"
   THEN <<"Include safety warnings when applicable", "Avoid potentially harmful instructions",
          "Consider ethical implications">>
   ELSE IF objective = "speed"
   THEN <<"Prioritize actionable information", "Use simple, direct language",
          "Avoid deep theoretical explanations">>
   ELSE <<>>)
  \o (IF contentType = "video"
      THEN <<"Include visual and audio descriptions", "Consider pacing and timing">>
      ELSE IF contentType = "image"
      THEN <<"Describe visual elements in detail", "Consider composition and aesthetics">>
      ELSE IF contentType = "presentation"
      THEN <<"Structure information for slides", "Include speaker notes when relevant">>
      ELSE <<>>)

generateExamples_part003(intent) ==
  IF intent = "Summarization"
  THEN <<"Key point 1: Main finding or conclusion", "Key point 2: Supporting evidence or method",
         "Key point 3: Implications or next steps">>
  ELSE IF intent = "Code Generation"
  THEN <<"// Example function with clear naming",
         "function calculateTotal(items) { return items.reduce(...) }">>
  ELSE IF intent = "Analysis"
  THEN <<"Strengths: [specific positive aspects]", "Weaknesses: [areas for improvement]",
         "Recommendations: [actionable next steps]">>
  ELSE <<>>

shouldIncludeExamples(prompt, objective) ==
  \/ \E w \in {"example", "sample", "instance"} : Includes(ToLowerCase(prompt), w)
  \/ objective = "precision"

determineFormat(prompt, contentType) ==
  LET p == ToLowerCase(prompt) IN
  IF Includes(p, "json") THEN "JSON"
  ELSE IF Includes(p, "markdown") \/ Includes(p, "table") THEN "Markdown"
  ELSE IF Includes(p, "bullet") \/ Includes(p, "list") THEN "Bullet Points"
  ELSE IF Includes(p, "paragraph") THEN "Paragraphs"
  ELSE IF contentType = "presentation" THEN "Slide Format"
  ELSE IF contentType = "video" THEN "Script Format"
  ELSE IF contentType = "image" THEN "Visual Description"
  ELSE "Structured Text"

\* optimizePrompt after the defaults of its destructuring were applied to
\* the omitted options; examples is <<>> for undefined
optimizePromptWith(original, o, intent, optimizedPrompt) ==
  [intent           |-> intent,
   optimized_prompt |-> optimizedPrompt,
   parameters       |-> [role         |-> o["role"],
                         language     |-> o["defaultLanguage"],
                         objective    |-> o["objective"],
                         reasoning    |-> o["reasoning"],
                         content_type |-> o["contentType"],
                         format       |-> determineFormat(original, o["contentType"])],
   constraints      |-> generateConstraints_part003(o["objective"], o["reasoning"],
                                                    o["contentType"]),
   examples         |-> IF shouldIncludeExamples(original, o["objective"])
                        THEN <<generateExamples_part003(intent)>> ELSE <<>>,
   metadata         |->
     [original_length  |-> Len(original),
      optimized_length |-> Len(optimizedPrompt),
      complexity_score |-> IntMin(100, IntMax(20, 60 + SplitSpaceCount(original))),
      clarity_score    |-> IntMin(100, IntMax(40, 70 + (IF Includes(optimizedPrompt, "specific")
                                                        THEN 10 ELSE 0)))]]

optimizePrompt_part003(original, o) ==
  optimizePromptWith(original, WithDefaults(o), analyzeIntent_part003(original),
                     generateOptimizedPrompt(original, analyzeIntent_part003(original),
                                             WithDefaults(o)))

\* prompts of words with and without the trigger words of
\* enhanceMainInstruction under few option records, and few prompts under
\* many option records
InputsPart003 ==
  (PromptsOver({"Summarize", "summarized", "unexplained", "recreate"})
     \X {EmptyOptions,
         WithOption(EmptyOptions, "objective", "brevity"),
         WithOption(EmptyOptions, "objective", "creativity"),
         WithOption(EmptyOptions, "defaultLanguage", "sv-SE"),
         WithOption(EmptyOptions, "reasoning", "low")})
  \cup (FewPrompts \X ManyOptions)

InitPart003 ==
  /\ \E input \in InputsPart003 :
       /\ originalPrompt = input[1]
       /\ options = input[2]
  /\ thoughts = <<>>
  /\ rootThoughts = <<>>
  /\ rootIdx = 0
  /\ paths = <<>>
  /\ pathThoughts = <<>>
  /\ step = 0
  /\ pc = "part003"
  /\ result = <<>>
  /\ now = 1700
  /\ rng \in 1..NumSeeds
  /\ calls = 1
  /\ prev = <<>>
  /\ deployed = 0
  /\ request = <<>>
  /\ response = <<>>
  /\ hops = 0
  /\ ClientIdle

\* one call of the optimizePrompt of part_003
OptimizePromptPart003 ==
  /\ pc = "part003"
  /\ result' = <<optimizePrompt_part003(originalPrompt, options)>>
  /\ pc' = "part003 done"
  /\ UNCHANGED <<originalPrompt, options, thoughts, rootThoughts, rootIdx, paths,
                 pathThoughts, step, now, rng, calls, prev>>
  /\ UNCHANGED <<deployed, request, response, hops>>
  /\ UNCHANGED <<historyVars, homeVars>>

\* single calls of the single-pass variant
SpecPart003 == InitPart003 /\ [][OptimizePromptPart003]_vars

(***************************************************************************)
(* The locale middleware of src/middleware.ts.  The file holds two          *)
(* middlewares: lines 1-42 (negotiate, middleware) and lines 44-210         *)
(* (parseAcceptLanguage, negotiateLocale, middleware); the definitions of   *)
(* the second carry the suffix _second where the names coincide.            *)
(*                                                                         *)
(* A request is [pathname, cookie, acceptLanguage, timezone]: the path of   *)
(* req.nextUrl, the po_locale cookie, the accept-language and cf-timezone   *)
(* headers, each header and the cookie <<>> when absent.  A response is     *)
(* [kind, location, cookie]: NextResponse.next() or a redirect to the path  *)
(* location, and the po_locale cookie it sets, <<>> if none.  Quality       *)
(* values are counted in tenths; <<>> stands for NaN.                       *)
(***************************************************************************)
RECURSIVE Split(_, _)
\* String.prototype.split
Split(s, sep) ==
  IF ~Includes(s, sep) THEN <<s>>
  ELSE <<SubSeq(s, 1, IndexOf(s, sep) - 1)>>
         \o Split(SubSeq(s, IndexOf(s, sep) + Len(sep), Len(s)), sep)

\* pathname.split('/').filter(Boolean)[0], <<>> for undefined
FirstSegment(pathname) ==
  LET segments == SelectSeq(Split(pathname, "/"), LAMBDA x : x # "") IN
  IF segments = <<>> THEN <<>> ELSE <<segments[1]>>

\* parseFloat of a string "d" or "d.d..." with decimal digits d, in tenths
ParseFloat(s) ==
  LET digit(i) == (CHOOSE k \in 1..10 : CharAt(DigitChars, k) = CharAt(s, i)) - 1
      isDigit(i) == i <= Len(s) /\ CharAt(s, i) \in CharsOf(DigitChars)
  IN IF ~isDigit(1) THEN <<>>
     ELSE IF Len(s) >= 3 /\ CharAt(s, 2) = "." /\ isDigit(3) THEN <<10 * digit(1) + digit(3)>>
     ELSE <<10 * digit(1)>>

RECURSIVE SortByQuality(_)
\* Array.prototype.sort((a, b) => b.quality - a.quality): stable, highest
\* quality first; a difference that is NaN counts as 0
SortByQuality(parts) ==
  IF Len(parts) <= 1 THEN parts
  ELSE LET first  == Head(parts)
           rest   == SortByQuality(Tail(parts))
           Before(p) == p.quality # <<>> /\ first.quality # <<>>
                          /\ p.quality[1] > first.quality[1]
       IN SelectSeq(rest, Before) \o <<first>> \o SelectSeq(rest, LAMBDA p : ~Before(p))

SUPPORTED == {"en", "es"}

\* the second piece of a split, <<>> for undefined
SecondPiece(s, sep) == IF Len(Split(s, sep)) >= 2 THEN <<Split(s, sep)[2]>> ELSE <<>>

\* negotiate of the first middleware
negotiate(req) ==
  IF req.cookie # <<>> /\ req.cookie[1] # "" /\ req.cookie[1] \in SUPPORTED THEN req.cookie[1]
  ELSE LET h      == IF req.acceptLanguage = <<>> THEN "" ELSE req.acceptLanguage[1]
           pieces == Split(h, ",")
           parts  == [i \in 1..Len(pieces) |->
                        LET t  == Split(Trim(pieces[i]), ";")[1]
                            q  == SecondPiece(Trim(pieces[i]), ";")
                            qv == IF q = <<>> THEN <<>> ELSE SecondPiece(q[1], "=")
                        IN [locale  |-> ToLowerCase(Split(t, "-")[1]),
                            quality |-> IF qv # <<>> /\ qv[1] # "" THEN ParseFloat(qv[1])
                                        ELSE <<10>>]]
           sorted == SortByQuality(parts)
           found  == SelectSeq(sorted, LAMBDA p : p.locale \in SUPPORTED)
       IN IF found # <<>> THEN found[1].locale ELSE "en"

\* the first middleware
middleware(req) ==
  IF StartsWith(req.pathname, "/_next") \/ StartsWith(req.pathname, "/api")
     \/ Includes(req.pathname, ".")
  THEN [kind |-> "next", location |-> "", cookie |-> <<>>]
  ELSE IF FirstSegment(req.pathname) # <<>> /\ FirstSegment(req.pathname)[1] \in SUPPORTED
  THEN [kind |-> "next", location |-> "", cookie |-> <<>>]
  ELSE [kind     |-> "redirect",
        location |-> "/" \o negotiate(req) \o req.pathname,
        cookie   |-> <<negotiate(req)>>]

\* LOCALE_MAPPING[key] of the second middleware, <<>> for undefined; the
\* table is an object literal, so the keys constructor and __proto__ yield
\* the members inherited from Object.prototype, here as the strings that a
\* template literal makes of them
LOCALE_MAPPING(key) ==
  IF key \in {"en", "en-us", "en-gb", "en-ca", "en-au", "en-nz", "en-za"} THEN <<"en">>
  ELSE IF key \in {"es", "es-es", "es-mx", "es-ar", "es-cl", "es-co", "es-pe", "es-ve", "es-ec",
                   "es-gt", "es-cu", "es-bo", "es-do", "es-hn", "es-py", "es-sv", "es-ni",
                   "es-cr", "es-pa", "es-uy"} THEN <<"es">>
  ELSE IF key = "constructor" THEN <<"function Object() { [native code] }">>
  ELSE IF key = "__proto__" THEN <<"[object Object]">>
  ELSE <<>>

parseAcceptLanguage(acceptLanguage) ==
  LET pieces == Split(acceptLanguage, ",") IN
  SortByQuality([i \in 1..Len(pieces) |->
                   LET qValue == SecondPiece(Trim(pieces[i]), ";")
                       parsed == IF qValue = <<>> \/ qValue[1] = "" THEN <<>>
                                 ELSE IF SecondPiece(qValue[1], "=") = <<>> THEN <<>>
                                 ELSE ParseFloat(SecondPiece(qValue[1], "=")[1])
                   IN [locale  |-> Trim(ToLowerCase(Split(Trim(pieces[i]), ";")[1])),
                       quality |-> IF parsed = <<>> \/ parsed = <<0>> THEN <<10>> ELSE parsed]])

spanishTimezones ==
  {"America/Mexico_City", "America/Bogota", "America/Lima", "America/Santiago",
   "America/Buenos_Aires", "America/Caracas", "Europe/Madrid", "America/Guatemala",
   "America/Tegucigalpa", "America/El_Salvador", "America/Managua", "America/Costa_Rica",
   "America/Panama", "America/Montevideo", "America/La_Paz", "America/Asuncion"}

\* the for loop of negotiateLocale from entry i on, <<>> when it ends
\* without a return
RECURSIVE FirstMapped(_, _)
FirstMapped(languages, i) ==
  IF i > Len(languages) THEN <<>>
  ELSE IF LOCALE_MAPPING(languages[i].locale) # <<>> THEN LOCALE_MAPPING(languages[i].locale)
  ELSE IF LOCALE_MAPPING(Split(languages[i].locale, "-")[1]) # <<>>
  THEN LOCALE_MAPPING(Split(languages[i].locale, "-")[1])
  ELSE FirstMapped(languages, i + 1)

negotiateLocale(req) ==
  LET fromHeader == IF req.acceptLanguage # <<>> /\ req.acceptLanguage[1] # ""
                    THEN FirstMapped(parseAcceptLanguage(req.acceptLanguage[1]), 1)
                    ELSE <<>>
  IN IF req.cookie # <<>> /\ req.cookie[1] # "" /\ req.cookie[1] \in SUPPORTED
     THEN req.cookie[1]
     ELSE IF fromHeader # <<>> THEN fromHeader[1]
     ELSE IF req.timezone # <<>> /\ req.timezone[1] \in spanishTimezones THEN "es"
     ELSE "en"

\* the second middleware; search and hash are carried over unchanged and
\* are not part of a request here
middleware_second(req) ==
  LET potentialLocale == IF FirstSegment(req.pathname) = <<>> THEN <<>>
                         ELSE <<ToLowerCase(FirstSegment(req.pathname)[1])>>
  IN
  IF StartsWith(req.pathname, "/_next/") \/ StartsWith(req.pathname, "/api/")
     \/ Includes(req.pathname, ".")
     \/ req.pathname \in {"/favicon.ico", "/robots.txt", "/sitemap.xml"}
  THEN [kind |-> "next", location |-> "", cookie |-> <<>>]
  ELSE IF potentialLocale # <<>> /\ potentialLocale[1] \in SUPPORTED
  THEN [kind     |-> "next",
        location |-> "",
        cookie   |-> IF req.cookie # potentialLocale THEN potentialLocale ELSE <<>>]
  ELSE [kind     |-> "redirect",
        location |-> "/" \o negotiateLocale(req) \o req.pathname,
        cookie   |-> <<negotiateLocale(req)>>]

\* the requests a browser starts with
Requests ==
  [pathname       : {"/", "/about", "/en", "/es/about", "/EN/about", "/english", "/api/x",
                     "/favicon.ico"},
   cookie         : {<<>>, <<"es">>, <<"fr">>},
   acceptLanguage : {<<>>, <<"es-MX,en;q=0.8">>, <<"fr;q=0.9, en;q=0, es;q=0.5">>,
                     <<"constructor">>},
   timezone       : {<<>>, <<"Europe/Madrid">>}]

InitLocale ==
  /\ deployed \in {1, 2}
  /\ request \in Requests
  /\ response = <<>>
  /\ hops = 0
  /\ originalPrompt = ""
  /\ options = EmptyOptions
  /\ thoughts = <<>>
  /\ rootThoughts = <<>>
  /\ rootIdx = 0
  /\ paths = <<>>
  /\ pathThoughts = <<>>
  /\ step = 0
  /\ pc = "request"
  /\ result = <<>>
  /\ now = 1700
  /\ rng = 1
  /\ calls = 0
  /\ prev = <<>>
  /\ ClientIdle

\* the deployed middleware answers the request
HandleRequest ==
  /\ request # <<>>
  /\ response = <<>>
  /\ response' = <<IF deployed = 1 THEN middleware(request) ELSE middleware_second(request)>>
  /\ UNCHANGED <<deployed, request, hops>>
  /\ UNCHANGED <<originalPrompt, options, thoughts, rootThoughts, rootIdx, paths,
                 pathThoughts, step, pc, result, now, rng, calls, prev>>
  /\ UNCHANGED <<historyVars, homeVars>>

\* the browser follows the redirect: it stores the cookie of the response
\* and requests the location with the same headers
FollowRedirect ==
  /\ response # <<>>
  /\ response[1].kind = "redirect"
  /\ hops < MaxHops
  /\ request' = [request EXCEPT !.pathname = response[1].location,
                                !.cookie = IF response[1].cookie # <<>>
                                           THEN response[1].cookie ELSE @]
  /\ response' = <<>>
  /\ hops' = hops + 1
  /\ UNCHANGED deployed
  /\ UNCHANGED <<originalPrompt, options, thoughts, rootThoughts, rootIdx, paths,
                 pathThoughts, step, pc, result, now, rng, calls, prev>>
  /\ UNCHANGED <<historyVars, homeVars>>

NextLocale ==
  \/ HandleRequest
  \/ FollowRedirect

\* requests to either middleware, redirects followed
SpecLocale == InitLocale /\ [][NextLocale]_vars

(***************************************************************************)
(* usePromptHistory over useLocalStorage, src/lib/hooks.ts.                 *)
(*                                                                         *)
(* setValue closes over the storedValue of the render that created it; the *)
(* callbacks of usePromptHistory are created with it.  A render replaces   *)
(* them by callbacks that close over the state set last.  Several calls    *)
(* can be made from one event handler before the component renders again.  *)
(* The item in localStorage is the JSON text that setValue writes.         *)
(***************************************************************************)
\* the entry that addToHistory builds; settings is held as its JSON text
historyEntry(promptArg, optimizedPrompt, settings, clock) ==
  [id              |-> ToString(clock),
   prompt          |-> promptArg,
   optimizedPrompt |-> optimizedPrompt,
   settings        |-> settings,
   timestamp       |-> clock,
   favorite        |-> FALSE]

\* prev => [entry, ...prev] without the slice
addToHistoryKeepAll(previous, entry) == <<entry>> \o previous

\* prev => [entry, ...prev.slice(0, 49)]
addToHistory(previous, entry) == <<entry>> \o SubSeq(previous, 1, IntMin(49, Len(previous)))

\* prev => prev.map(entry => entry.id === id ? {...entry, favorite: !entry.favorite} : entry)
toggleFavorite(previous, id) ==
  [i \in 1..Len(previous) |->
     IF previous[i].id = id THEN [previous[i] EXCEPT !.favorite = ~previous[i].favorite]
     ELSE previous[i]]

\* prev => prev.filter(entry => entry.id !== id)
removeFromHistory(previous, id) == SelectSeq(previous, LAMBDA entry : entry.id # id)

\* setValue: value instanceof Function ? value(storedValue) : value, for the
\* value that the call passes to setHistory
valueToStore(call, val) ==
  IF call.op = "addToHistory" THEN addToHistory(val, call.entry)
  ELSE IF call.op = "toggleFavorite" THEN toggleFavorite(val, call.id)
  ELSE IF call.op = "removeFromHistory" THEN removeFromHistory(val, call.id)
  ELSE <<>>

\* JSON.stringify of a history; the strings of the model need no escaping
JSONStringify(val) ==
  "[" \o Join([i \in 1..Len(val) |->
                 "{\"id\":\"" \o val[i].id
                   \o "\",\"prompt\":\"" \o val[i].prompt
                   \o "\",\"optimizedPrompt\":\"" \o val[i].optimizedPrompt
                   \o "\",\"settings\":" \o val[i].settings
                   \o ",\"timestamp\":" \o ToString(val[i].timestamp)
                   \o ",\"favorite\":" \o (IF val[i].favorite THEN "true" ELSE "false")
                   \o "}"],
              ",") \o "]"

\* a history of n entries, the most recent first, as n calls of addToHistory
\* one millisecond apart leave it
StoredHistory(n) == [i \in 1..n |-> historyEntry("p", "P", "{}", 1700 - i)]

\* the arguments of addToHistory
HistoryInputs == {<<"a", "A", "{}">>, <<"b", "B", "{\"role\":\"expert\"}">>}

\* the ids of the first and of the last entry that the component shows
ShownIds == {closureValue[i].id : i \in {1, Len(closureValue)} \cap (1..Len(closureValue))}

\* neither the optimizer nor the middleware is running
ServerIdle ==
  /\ originalPrompt = ""
  /\ options = EmptyOptions
  /\ thoughts = <<>>
  /\ rootThoughts = <<>>
  /\ rootIdx = 0
  /\ paths = <<>>
  /\ pathThoughts = <<>>
  /\ step = 0
  /\ result = <<>>
  /\ rng = 1
  /\ prev = <<>>
  /\ deployed = 0
  /\ request = <<>>
  /\ response = <<>>
  /\ hops = 0

\* the component mounts over an empty, a short, an almost full or a full
\* stored history
InitHistory ==
  /\ \E n \in {0, 1, 49, 50} :
       /\ storedValue = StoredHistory(n)
       /\ closureValue = StoredHistory(n)
       /\ localStorage = IF n = 0 THEN <<>> ELSE <<JSONStringify(StoredHistory(n))>>
  /\ issued = <<>>
  /\ pc = "history"
  /\ now = 1700
  /\ calls = 0
  /\ promptState = ""
  /\ out = <<>>
  /\ loading = FALSE
  /\ toast = ""
  /\ timers = <<>>
  /\ ServerIdle

\* setValue of useLocalStorage, called with the value or updater of call
setValue(call) ==
  /\ pc = "history"
  /\ calls < MaxHistoryCalls
  /\ Len(issued) < MaxPending
  /\ \E v \in {valueToStore(call, closureValue)} :
       /\ storedValue' = v
       /\ localStorage' = <<JSONStringify(v)>>
  /\ issued' = Append(issued, call)
  /\ calls' = calls + 1
  /\ UNCHANGED <<closureValue, pc, homeVars, serverVars>>

AddToHistory ==
  \E input \in HistoryInputs, clock \in {now, now + 1} :
    /\ now' = clock
    /\ setValue([op |-> "addToHistory",
                 entry |-> historyEntry(input[1], input[2], input[3], clock)])

ToggleFavorite ==
  \E id \in ShownIds :
    /\ setValue([op |-> "toggleFavorite", id |-> id])
    /\ UNCHANGED now

RemoveFromHistory ==
  \E id \in ShownIds :
    /\ setValue([op |-> "removeFromHistory", id |-> id])
    /\ UNCHANGED now

ClearHistory ==
  /\ setValue([op |-> "clearHistory"])
  /\ UNCHANGED now

\* the component renders again: new callbacks close over the state set last
Render ==
  /\ pc = "history"
  /\ issued # <<>>
  /\ closureValue' = storedValue
  /\ issued' = <<>>
  /\ UNCHANGED <<storedValue, localStorage, pc, now, calls, homeVars, serverVars>>

NextHistory ==
  \/ AddToHistory
  \/ ToggleFavorite
  \/ RemoveFromHistory
  \/ ClearHistory
  \/ Render

\* calls of the callbacks of usePromptHistory, and renders
SpecHistory == InitHistory /\ [][NextHistory]_vars

(***************************************************************************)
(* The component of src/components/HomeClient.tsx: the prompt, the Generate *)
(* and Reset buttons, the toast and the timers they set.                    *)
(*                                                                         *)
(* An event handler and the render that follows it are one step.  A timer  *)
(* is a record of timers: its kind, the milliseconds left until it is due, *)
(* the handler that set it and, for a generation timer, the prompt its     *)
(* callback closed over.  Time passes in steps of TimeUnit while no timer   *)
(* is due.  The option states keep their initial values.  out holds the    *)
(* arguments of the optimizePrompt call whose result it is.                *)
(***************************************************************************)
GenerateDelay == 800
ToastDelay == 2200
TimeUnit == 200

\* the pending timers of a kind
TimersOf(kind) == SelectSeq(timers, LAMBDA t : t.kind = kind)

\* toastMsg(m): the timers after setTimeout(() => setToast(''), 2200)
toastMsg(pending, setBy) ==
  Append(pending, [kind |-> "toast", remaining |-> ToastDelay, setBy |-> setBy, prompt |-> ""])

\* a Generate button that is never disabled
generateDisabledNever == FALSE

\* disabled={loading || !prompt.trim()}
generateDisabled == loading \/ Trim(promptState) = ""

\* the texts typed into the textarea
TypedPrompts == {"  ", "Explain closures"}

\* the text of an example card
ExampleText == "Fix this Python function and add 3 brief comments explaining the key changes"

InitHome ==
  /\ promptState = ""
  /\ out = <<>>
  /\ loading = FALSE
  /\ toast = ""
  /\ timers = <<>>
  /\ pc = "home"
  /\ now = 1700
  /\ calls = 0
  /\ storedValue = <<>>
  /\ closureValue = <<>>
  /\ localStorage = <<>>
  /\ issued = <<>>
  /\ ServerIdle

\* onChange of the textarea
EditPrompt ==
  /\ pc = "home"
  /\ \E text \in TypedPrompts :
       /\ text # promptState
       /\ promptState' = text
  /\ UNCHANGED <<out, loading, toast, timers, pc, now, calls, historyVars, serverVars>>

\* onClick of an example card
LoadExample ==
  /\ pc = "home"
  /\ Len(TimersOf("toast")) < MaxToastTimers
  /\ promptState' = ExampleText
  /\ toast' = "Example loaded"
  /\ timers' = toastMsg(timers, "example")
  /\ UNCHANGED <<out, loading, pc, now, calls, historyVars, serverVars>>

\* onClick of the Generate button: generate()
ClickGenerate ==
  /\ pc = "home"
  /\ ~generateDisabled
  /\ IF Trim(promptState) = ""
     THEN /\ Len(TimersOf("toast")) < MaxToastTimers
          /\ toast' = "Please enter a prompt first"
          /\ timers' = toastMsg(timers, "generate")
          /\ UNCHANGED loading
     ELSE /\ loading' = TRUE
          /\ timers' = Append(timers, [kind |-> "generate", remaining |-> GenerateDelay,
                                       setBy |-> "generate", prompt |-> promptState])
          /\ UNCHANGED toast
  /\ UNCHANGED <<promptState, out, pc, now, calls, historyVars, serverVars>>

\* onClick of the Reset button
ClickReset ==
  /\ pc = "home"
  /\ Len(TimersOf("toast")) < MaxToastTimers
  /\ promptState' = ""
  /\ out' = <<>>
  /\ toast' = "Reset complete"
  /\ timers' = toastMsg(timers, "reset")
  /\ UNCHANGED <<loading, pc, now, calls, historyVars, serverVars>>

\* the timers that are due, and among them the one due first: the least
\* remaining time, the one set first among equals
IsDue(i) == timers[i].remaining <= 0

FirstDue(i) ==
  /\ IsDue(i)
  /\ \A j \in 1..Len(timers) :
       \/ timers[j].remaining > timers[i].remaining
       \/ (timers[j].remaining = timers[i].remaining /\ j >= i)

\* timers without the one at position i
WithoutTimer(i) == SubSeq(timers, 1, i - 1) \o SubSeq(timers, i + 1, Len(timers))

\* the callback of a timer of toastMsg runs
ToastTimerFires ==
  /\ pc = "home"
  /\ \E i \in 1..Len(timers) :
       /\ FirstDue(i)
       /\ timers[i].kind = "toast"
       /\ toast' = ""
       /\ timers' = WithoutTimer(i)
  /\ UNCHANGED <<promptState, out, loading, pc, now, calls, historyVars, serverVars>>

\* the callback of the timer of generate runs; optimizePrompt returns a
\* result or throws, setLoading(false) follows either way
GenerateTimerFires ==
  /\ pc = "home"
  /\ \E i \in 1..Len(timers) :
       /\ FirstDue(i)
       /\ timers[i].kind = "generate"
       /\ \/ /\ out' = <<[originalPrompt |-> timers[i].prompt, options |-> DefaultOptions]>>
             /\ toast' = "Generated successfully!"
          \/ /\ toast' = "Generation failed"
             /\ UNCHANGED out
       /\ timers' = toastMsg(WithoutTimer(i), "timer")
  /\ loading' = FALSE
  /\ UNCHANGED <<promptState, pc, now, calls, historyVars, serverVars>>

\* TimeUnit milliseconds pass; a timer that is due runs before more time
\* passes
Tick ==
  /\ pc = "home"
  /\ timers # <<>>
  /\ \A i \in 1..Len(timers) : ~IsDue(i)
  /\ timers' = [i \in 1..Len(timers) |->
                  [timers[i] EXCEPT !.remaining = timers[i].remaining - TimeUnit]]
  /\ UNCHANGED <<promptState, out, loading, toast, pc, now, calls, historyVars, serverVars>>

NextHome ==
  \/ EditPrompt
  \/ LoadExample
  \/ ClickGenerate
  \/ ClickReset
  \/ ToastTimerFires
  \/ GenerateTimerFires
  \/ Tick

\* the user's events, the timers and the passing of time
SpecHome == InitHome /\ [][NextHome]_vars

\* the same, where time passes and a due timer runs
SpecHomeLive ==
  /\ InitHome
  /\ [][NextHome]_vars
  /\ WF_vars(Tick)
  /\ WF_vars(ToastTimerFires)
  /\ WF_vars(GenerateTimerFires)

(***************************************************************************)
(* The properties of optimizePrompt.                                       *)
(***************************************************************************)
\* optimizePrompt has returned
Returned == pc = "done" /\ Len(result) = 1

\* the fields of a result that the contract speaks of
ContractFields(r) ==
  [intent           |-> r.intent,
   optimized_prompt |-> r.optimized_prompt,
   constraints      |-> r.constraints,
   examples         |-> r.examples,
   metadata         |-> r.metadata]

\* the call that has returned repeats the previous call, options unchanged
RepeatedCall == Returned /\ prev # <<>> /\ prev[1].variant = "same"

\* the call that has returned repeats the previous call, which omitted
\* options, with the omitted options passed as their documented defaults
DefaultedCall == Returned /\ prev # <<>> /\ prev[1].variant = "defaults"

\* C1 (Determinism): two separate calls of optimizePrompt with the same
\* prompt and the same options return the same intent, optimized_prompt,
\* constraints, examples and metadata, whatever the clock and the random
\* generator put into the identifiers.
C1_Determinism ==
  RepeatedCall => ContractFields(result[1]) = ContractFields(prev[1].result)

\* a repeated call has returned, its path identifiers differ from those of
\* the previous call and the contract fields are the same
C1_Witness ==
  /\ RepeatedCall
  /\ result[1].tot_analysis.selected_path # prev[1].result.tot_analysis.selected_path
  /\ \A i \in 1..Len(result[1].tot_analysis.explored_paths) :
       result[1].tot_analysis.explored_paths[i] # prev[1].result.tot_analysis.explored_paths[i]
  /\ ContractFields(result[1]) = ContractFields(prev[1].result)

\* C2 (Totality): optimizePrompt never throws, a call that has ended has
\* returned a result, and optimizePrompt("", {}) returns intent
\* "General Task" and metadata.original_length 0.
C2_Totality ==
  /\ pc # "threw"
  /\ pc = "done" => Len(result) = 1
  /\ (Returned /\ originalPrompt = "" /\ options = EmptyOptions)
       => /\ result[1].intent = "General Task"
          /\ result[1].metadata.original_length = 0

\* optimizePrompt("", {}) has returned the result of the tree search over
\* three paths, not the fallback
C2_Witness ==
  /\ Returned
  /\ originalPrompt = ""
  /\ options = EmptyOptions
  /\ result[1].metadata.tot_exploration_paths = 3
  /\ result[1].intent = "General Task"
  /\ result[1].metadata.original_length = 0

\* the scores of a result
Scores(r) == <<r.metadata.complexity_score, r.metadata.clarity_score>>

PrecisionItems ==
  {"Include specific examples and evidence", "Use precise terminology", "Verify accuracy of claims"}

ItemsOf(list) == {list[i] : i \in 1..Len(list)}

\* C3 (Defaulting): a call with omitted options returns the same
\* optimized_prompt, constraints, examples and scores as the call that
\* passes the documented defaults for them, and the constraints of
\* optimizePrompt("") contain the items of the precision objective.
C3_Defaulting ==
  /\ DefaultedCall =>
       /\ result[1].optimized_prompt = prev[1].result.optimized_prompt
       /\ result[1].constraints = prev[1].result.constraints
       /\ result[1].examples = prev[1].result.examples
       /\ Scores(result[1]) = Scores(prev[1].result)
  /\ (Returned /\ originalPrompt = "" /\ options = EmptyOptions)
       => PrecisionItems \subseteq ItemsOf(result[1].constraints)

\* C4 (Length accounting): metadata.original_length is the length of the raw
\* prompt and metadata.optimized_length is the length of the returned
\* optimized_prompt.
C4_LengthAccounting ==
  Returned =>
    /\ result[1].metadata.original_length = Len(originalPrompt)
    /\ result[1].metadata.optimized_length = Len(result[1].optimized_prompt)

\* a call has returned for a prompt of 22 characters, with an optimized
\* prompt that is longer and that extractFinalPrompt cut out of a last
\* thought that is longer still
C4_Witness ==
  /\ Returned
  /\ originalPrompt = "Summarize this article"
  /\ result[1].metadata.original_length = 22
  /\ result[1].metadata.optimized_length > 22
  /\ result[1].metadata.optimized_length = Len(result[1].optimized_prompt)
  /\ \E i \in 1..Len(paths) :
       /\ <<paths[i].id>> = result[1].tot_analysis.selected_path
       /\ Len(paths[i].thoughts[Len(paths[i].thoughts)].content)
            > result[1].metadata.optimized_length

IsScore(x) == FGe(x, FZero) /\ FGe(FInt(100), x)

\* C5 (Score bounds): 0 <= complexity_score <= 100 and
\* 0 <= clarity_score <= 100 in the returned metadata, for long prompts that
\* repeat a trigger word as for the others.
C5_ScoreBounds ==
  Returned =>
    /\ IsScore(result[1].metadata.complexity_score)
    /\ IsScore(result[1].metadata.clarity_score)

\* a call has returned for a prompt of more than 1000 characters that
\* repeats a trigger word 130 times
C5_Witness ==
  /\ Returned
  /\ originalPrompt = LongPrompt
  /\ Len(originalPrompt) > 1000
  /\ IsScore(result[1].metadata.complexity_score)
  /\ IsScore(result[1].metadata.clarity_score)

\* C6 (Role echo): with a role r supplied, optimized_prompt begins with
\* "You are a " + r.toLowerCase() + ".".
C6_RoleEcho ==
  (Returned /\ Has(options, "role") /\ options["role"] # "")
    => StartsWith(result[1].optimized_prompt,
                  "You are a " \o ToLowerCase(options["role"]) \o ".")

\* the rules of the intent classification, in their order
IntentRules ==
  << <<{"summar"}, "Summarization">>,
     <<{"translat"}, "Translation">>,
     <<{"explain"}, "Explanation">>,
     <<{"code"}, "Code Generation">>,
     <<{"analyz"}, "Analysis">>,
     <<{"write", "creat"}, "Content Creation">>,
     <<{"plan"}, "Planning">>,
     <<{"review"}, "Review & Evaluation">> >>

\* rule i has a keyword that occurs in the lower-cased prompt
RuleOccurs(i, prompt) == \E w \in IntentRules[i][1] : Includes(ToLowerCase(prompt), w)

\* C7 (Intent priority): the intent is the label of the first rule, in the
\* order summar, translat, explain, code, analyz, write|creat, plan, review,
\* whose keyword occurs in the lower-cased prompt, "General Task" when none
\* occurs; a prompt with both summarize and analyze is "Summarization".
C7_IntentPriority ==
  Returned =>
    /\ \A i \in 1..Len(IntentRules) :
         (RuleOccurs(i, originalPrompt) /\ \A j \in 1..(i - 1) : ~RuleOccurs(j, originalPrompt))
           => result[1].intent = IntentRules[i][2]
    /\ (\A i \in 1..Len(IntentRules) : ~RuleOccurs(i, originalPrompt))
         => result[1].intent = "General Task"
    /\ (Includes(ToLowerCase(originalPrompt), "summarize")
          /\ Includes(ToLowerCase(originalPrompt), "analyze"))
         => result[1].intent = "Summarization"

\* a call has returned "Summarization" for a prompt, not in lower case, that
\* has analyze before summarize
C7_Witness ==
  /\ Returned
  /\ originalPrompt = "AnalyZe Summarize"
  /\ result[1].intent = "Summarization"

\* the objective was given, and the contentType too
BothGiven == Has(options, "objective") /\ Has(options, "contentType")

SelectedApproach(r) ==
  IF r.tot_analysis.selected_path = <<>> THEN ""
  ELSE IF StartsWith(r.tot_analysis.selected_path[1], "path_structural_") THEN "structural"
  ELSE IF StartsWith(r.tot_analysis.selected_path[1], "path_contextual_") THEN "contextual"
  ELSE IF StartsWith(r.tot_analysis.selected_path[1], "path_role_based_") THEN "role_based"
  ELSE ""

ApproachItem(approach) ==
  IF approach = "structural" THEN <<"Maintain clear logical structure">>
  ELSE IF approach = "contextual" THEN <<"Provide comprehensive context">>
  ELSE <<>>

RequestsExamples(prompt) ==
  \E w \in {"example", "sample", "instance"} : Includes(ToLowerCase(prompt), w)

\* C9 (Examples presence): the examples field is present exactly when the
\* raw prompt contains example, sample or instance or the objective is
\* precision, and is absent otherwise.
C9_ExamplesPresence ==
  Returned =>
    (result[1].examples # <<>>
       <=> (RequestsExamples(originalPrompt)
              \/ (Has(options, "objective") /\ options["objective"] = "precision")))

\* the language option is set to a tag that does not start with "en"
NonEnglish == Has(options, "defaultLanguage") /\ ~StartsWith(options["defaultLanguage"], "en")

\* C10 (Language directive): optimized_prompt has a "Respond in ..."
\* sentence exactly when the language option is set to a tag that does not
\* start with "en", and for fr-FR the sentence is "Respond in French.".
C10_LanguageDirective ==
  Returned =>
    /\ Includes(result[1].optimized_prompt, "Respond in ") <=> NonEnglish
    /\ (Has(options, "defaultLanguage") /\ options["defaultLanguage"] = "fr-FR")
         => Includes(result[1].optimized_prompt, "Respond in French.")

\* option k was given the value v
OptionIs(k, v) == Has(options, k) /\ options[k] = v

\* o with option k omitted
Without(o, k) == [x \in (DOMAIN o) \ {k} |-> o[x]]

\* the prompts that the approach builds from the raw prompt under o: the
\* optimized one and the refined one
BuiltPrompts(approach, o) ==
  {Trim(applyOptimizationStrategy(approach, originalPrompt, o)),
   Trim(applyRefinement(approach, originalPrompt, o))}

\* C11 (Reasoning directive): reasoning high appends the step-by-step
\* sentence, medium appends the brief-explanation sentence, and low appends
\* no reasoning directive, so that for reasoning low optimized_prompt is the
\* prompt that is built when the reasoning step is skipped.
C11_ReasoningDirective ==
  Returned =>
    /\ OptionIs("reasoning", "high")
         => Includes(result[1].optimized_prompt,
                     " Provide detailed step-by-step reasoning and explain your methodology.")
    /\ OptionIs("reasoning", "medium")
         => Includes(result[1].optimized_prompt, " Include brief explanations of your approach.")
    /\ OptionIs("reasoning", "low")
         => result[1].optimized_prompt
              \in BuiltPrompts(SelectedApproach(result[1]), Without(options, "reasoning"))

\* C12 (Instruction rewriting): with objective precision and a prompt that
\* contains the word summarize, optimized_prompt contains
\* "create a precise summary of"; with objective brevity and a prompt that
\* contains the word explain, it contains "concisely explain".
C12_InstructionRewriting ==
  Returned =>
    /\ (OptionIs("objective", "precision") /\ WordBoundaryTest(originalPrompt, {"summarize"}))
         => Includes(result[1].optimized_prompt, "create a precise summary of")
    /\ (OptionIs("objective", "brevity") /\ WordBoundaryTest(originalPrompt, {"explain"}))
         => Includes(result[1].optimized_prompt, "concisely explain")

\* the call that has returned repeats the previous call, which had options
\* outside their enums, with the documented defaults passed for them
RepairedCall == Returned /\ prev # <<>> /\ prev[1].variant = "inrange"

\* C13 (Out-of-range option values): with objective, reasoning or
\* contentType outside its enum optimizePrompt does not throw and returns
\* the optimized_prompt and constraints of the call that passes the
\* documented default (precision, medium, text) instead.
C13_OutOfRangeOptions ==
  /\ pc # "threw"
  /\ RepairedCall =>
       /\ prev[1].result.optimized_prompt = result[1].optimized_prompt
       /\ prev[1].result.constraints = result[1].constraints

\* the sentence that the step appends to a prompt under the options of the
\* call, "" when it appends none
ReasoningSentence == applyReasoningLevel("", options)
ObjectiveSentence == applyObjectiveOptimization("", options)
LanguageSentence == languageDirective(options)

\* both sentences occur in p, and a before b
InOrder(p, a, b) ==
  (a # "" /\ b # "" /\ Includes(p, a) /\ Includes(p, b)) => IndexOf(p, a) < IndexOf(p, b)

\* C15 (Directive order): in optimized_prompt the directives follow the role
\* declaration and the instruction in the order format directive, language
\* directive, reasoning directive, objective directive; the language
\* directive never comes after the reasoning or the objective directive.
C15_DirectiveOrder ==
  Returned =>
    /\ InOrder(result[1].optimized_prompt, LanguageSentence, ReasoningSentence)
    /\ InOrder(result[1].optimized_prompt, LanguageSentence, ObjectiveSentence)
    /\ InOrder(result[1].optimized_prompt, ReasoningSentence, ObjectiveSentence)

\* the language names of the code-to-name table
LanguageNames == {"Spanish", "French", "German", "Italian", "Portuguese"}

\* C16 (Language table coverage): for every code of LOCALES that does not
\* start with "en", the language directive of optimized_prompt names a
\* language of the code-to-name table and never the generic placeholder.
C16_LanguageTableCoverage ==
  (Returned /\ NonEnglish /\ options["defaultLanguage"] \in LOCALES)
    => /\ Includes(result[1].optimized_prompt, "Respond in ")
            => \E name \in LanguageNames :
                 Includes(result[1].optimized_prompt, "Respond in " \o name \o ".")
       /\ ~Includes(result[1].optimized_prompt, "the specified language")

\* the score of a path as the claim states it, from the thoughts of the path
StatedPathScore(path) ==
  LET n == Len(path.thoughts) IN
  FAdd(FAdd(FAdd(FDivInt(SumScores(path.thoughts, n), n),
                 FMul(FTenths(3), FDivInt(FInt(CountSure(path.thoughts)), n))),
            FMul(FTenths(2), FMin(FDivInt(FInt(n), 4), FInt(1)))),
       IF Len(path.final_prompt) > 1000 THEN FNeg(FTenths(1)) ELSE FZero)

\* path i of the explored paths is the one the result names as selected
IsSelected(i) == <<paths[i].id>> = result[1].tot_analysis.selected_path

\* C20 (Best-path selection): the selected path is an explored path whose
\* score (average thought score + 0.3 * share of 'sure' thoughts
\* + 0.2 * min(thoughts/4, 1) - 0.1 if final_prompt is longer than 1000
\* characters) is maximal, the earliest explored of those, and the returned
\* optimized_prompt is its final_prompt.
C20_BestPathSelection ==
  (Returned /\ Len(paths) > 0) =>
    \E i \in 1..Len(paths) :
      /\ IsSelected(i)
      /\ \A j \in 1..Len(paths) : FGe(StatedPathScore(paths[i]), StatedPathScore(paths[j]))
      /\ \A j \in 1..(i - 1) : FGt(StatedPathScore(paths[i]), StatedPathScore(paths[j]))
      /\ result[1].optimized_prompt = paths[i].final_prompt

\* a call has returned the final_prompt of the first of three explored
\* paths, which is longer than 1000 characters and has the length penalty,
\* and its score is above that of the second path, which is above that of
\* the third, whose final_prompt is short
C20_Witness ==
  /\ Returned
  /\ Len(paths) = 3
  /\ Len(paths[1].final_prompt) > 1000
  /\ Len(paths[3].final_prompt) <= 1000
  /\ IsSelected(1)
  /\ result[1].optimized_prompt = paths[1].final_prompt
  /\ FGt(StatedPathScore(paths[1]), StatedPathScore(paths[2]))
  /\ FGt(StatedPathScore(paths[2]), StatedPathScore(paths[3]))

\* the optimizePrompt of part_003 has returned
ReturnedPart003 == pc = "part003 done" /\ Len(result) = 1

\* the value of option k after the defaults were applied
Resolved(k) == WithDefaults(options)[k]

\* C17 (Unresolved language codes): for a non-English language code with
\* no entry in the code-to-name table the language directive is
\* "Respond in the specified language."; the directive never names English
\* for a non-English code.  Stated for the variant of part_003.
C17_UnresolvedLanguageCodes ==
  (ReturnedPart003 /\ ~StartsWith(Resolved("defaultLanguage"), "en"))
    => /\ ~Includes(result[1].optimized_prompt, "Respond in English.")
       /\ Resolved("defaultLanguage") \notin DOMAIN languageMap
            => Includes(result[1].optimized_prompt, "Respond in the specified language.")

\* the trigger words of an objective
TriggerWords(objective) ==
  IF objective = "precision" THEN {"summarize", "explain", "analyze"}
  ELSE IF objective = "brevity" THEN {"summarize", "explain", "create"}
  ELSE {}

\* C18 (Whole-word substitution): enhanceMainInstruction replaces only
\* whole-word, case-insensitive occurrences of the trigger words of the
\* objective; a prompt in which a trigger occurs only inside a longer word
\* passes through unchanged, and so does every prompt for the objectives
\* creativity, safety and speed.
C18_WholeWordSubstitution ==
  ReturnedPart003 =>
    /\ ~WordBoundaryTest(originalPrompt, TriggerWords(Resolved("objective")))
         => Includes(result[1].optimized_prompt, originalPrompt)
    /\ (Resolved("objective") = "precision" /\ WordBoundaryTest(originalPrompt, {"summarize"}))
         => Includes(result[1].optimized_prompt, "create a precise summary of")
    /\ (Resolved("objective") = "brevity" /\ WordBoundaryTest(originalPrompt, {"summarize"}))
         => Includes(result[1].optimized_prompt, "briefly summarize")

\* s has no whitespace at either end and no two consecutive spaces
SinglySpaced(s) == Trim(s) = s /\ ~Includes(s, "  ")

\* C19 (Spacing): the optimized prompt has no leading or trailing
\* whitespace and its parts are separated by exactly one space: for a raw
\* prompt without consecutive or surrounding spaces, the empty one
\* included, it contains no two consecutive spaces.  Stated for
\* generateOptimizedPrompt of part_003.
C19_Spacing ==
  (ReturnedPart003 /\ SinglySpaced(originalPrompt)) => SinglySpaced(result[1].optimized_prompt)

\* the middleware has answered the request
Answered == response # <<>>

\* a static or API path
IsStaticPath(pathname) ==
  StartsWith(pathname, "/_next") \/ StartsWith(pathname, "/api") \/ Includes(pathname, ".")

\* C14 (Locale redirect has no loop): for a request path that is not a
\* static/API path the middleware either passes it through, and then the
\* first path segment is a supported locale, en or es, or answers with a
\* redirect to /<locale><pathname> with locale en or es and sets the cookie
\* po_locale to that locale; the redirected URL is passed through, so no
\* request is redirected more than once.
C14_LocaleRedirect ==
  /\ hops <= 1
  /\ (Answered /\ ~IsStaticPath(request.pathname)) =>
       \/ /\ response[1].kind = "next"
          /\ FirstSegment(request.pathname) # <<>>
          /\ ToLowerCase(FirstSegment(request.pathname)[1]) \in {"en", "es"}
       \/ /\ response[1].kind = "redirect"
          /\ \E locale \in {"en", "es"} :
               /\ response[1].location = "/" \o locale \o request.pathname
               /\ response[1].cookie = <<locale>>
  /\ (Answered /\ hops = 1) => response[1].kind = "next"

\* every thought the current call holds: the roots, the path under
\* exploration and the explored paths
ThoughtsHeld ==
  {rootThoughts[i] : i \in 1..Len(rootThoughts)}
    \cup {pathThoughts[i] : i \in 1..Len(pathThoughts)}
    \cup UNION {{paths[i].thoughts[j] : j \in 1..Len(paths[i].thoughts)} : i \in 1..Len(paths)}

\* C21 (No failure state): no thought is ever evaluated as 'impossible',
\* every score is at least 0.5; exploreTree returns exactly 3 non-empty
\* paths, so tot_exploration_paths is 3; selectBestPath does not throw and
\* the value returned is not the one of fallbackOptimization.
C21_NoFailureState ==
  /\ \A t \in ThoughtsHeld :
       t.confidence # "impossible" /\ FGe(t.evaluation_score, FTenths(5))
  /\ pc \in {"select", "done"} =>
       /\ Len(paths) = 3
       /\ \A i \in 1..3 : Len(paths[i].thoughts) > 0
       /\ selectBestPath(paths) # <<>>
  /\ pc # "threw"
  /\ Returned =>
       /\ result[1].metadata.tot_exploration_paths = 3
       /\ result[1] # fallbackOptimization(originalPrompt, options)

\* a call has returned in which a thought got the base score alone
C21_Witness ==
  /\ Returned
  /\ Len(paths) = 3
  /\ \E t \in ThoughtsHeld : t.evaluation_score = baseScore /\ t.confidence = "maybe"

\* the thoughts of a path are at the steps 0, 1, 2, ..., at most maxSteps of
\* them, and none before the last is a 'sure' thought at step >= 2
BoundedPath(ths) ==
  /\ Len(ths) <= maxSteps
  /\ \A j \in 1..Len(ths) :
       /\ ths[j].step = j - 1
       /\ (ths[j].step >= 2 /\ ths[j].confidence = "sure") => j = Len(ths)

\* the path ended where explorePath ends one: after its first 'sure' thought
\* at step >= 2, or with maxSteps thoughts
EndedInTime(ths) ==
  /\ Len(ths) \in {3, 4}
  /\ Len(ths) = 3 => ths[3].confidence = "sure"
  /\ Len(ths) = 4 => ths[3].confidence # "sure"

\* C22 (Bounded depth): explorePath terminates: its loop counter grows by one
\* with every iteration and stays within maxSteps.  Every path has its
\* thoughts at the consecutive steps 0, 1, 2, ... with at most maxSteps = 4
\* thoughts, exploration stops immediately after the first thought at step
\* >= 2 whose confidence is 'sure', so every explored path has 3 or 4
\* thoughts and reasoning_depth is 3 or 4.
C22_BoundedDepth ==
  /\ [](/\ step <= maxSteps
        /\ BoundedPath(pathThoughts)
        /\ pc = "explorePath" => Len(pathThoughts) = step
        /\ \A i \in 1..Len(paths) : BoundedPath(paths[i].thoughts) /\ EndedInTime(paths[i].thoughts)
        /\ Returned => result[1].metadata.reasoning_depth \in {3, 4})
  /\ [][(pc = "explorePath" /\ pc' = "explorePath") => step' = step + 1]_vars

\* a call has returned that explored a path of three thoughts and one of four
C22_Witness ==
  /\ Returned
  /\ \E i, j \in 1..Len(paths) : Len(paths[i].thoughts) = 3 /\ Len(paths[j].thoughts) = 4

\* the ids of the approaches of generateInitialThoughts, in the order of the
\* root thoughts
RootStrategyIds == <<"structural", "contextual", "role_based">>

\* C23 (Strategy preserved along a path): for each of the three root
\* strategies the approach id that deriveNextApproach extracts from a
\* thought of the path is the strategy id of the path's root, so every
\* later thought of the path has the content that the strategy's own
\* enhancement, optimization and refinement branch generates.
C23_StrategyPreserved ==
  \A i \in 1..Len(paths) :
    \A j \in 1..Len(paths[i].thoughts) :
      /\ deriveNextApproach(paths[i].thoughts[j]) = RootStrategyIds[i]
      /\ paths[i].thoughts[j].content =
           simulateThoughtGeneration(RootStrategyIds[i], j - 1, originalPrompt, options)

\* the path selected by the call that returned is the one rooted at the
\* structural initial thought
StructuralSelected ==
  /\ Len(paths) >= 1
  /\ paths[1].thoughts[1].id = rootThoughts[1].id
  /\ SplitFirst(rootThoughts[1].id, "_") = "structural"
  /\ result[1].tot_analysis.selected_path = <<paths[1].id>>

\* C24 (Exploration never changes the outcome): for every prompt and every
\* options record the path selected by selectBestPath is the one rooted at
\* the structural initial thought, so optimized_prompt contains the trimmed
\* original prompt and constraints end with "Maintain clear logical
\* structure".
C24_StructuralAlwaysSelected ==
  Returned =>
    /\ StructuralSelected
    /\ Includes(result[1].optimized_prompt, Trim(originalPrompt))
    /\ Len(result[1].constraints) >= 1
    /\ result[1].constraints[Len(result[1].constraints)] = "Maintain clear logical structure"

(***************************************************************************)
(* The properties of the hooks and of the component.                       *)
(***************************************************************************)
\* the ids of the entries of a history, in order
IdsOf(val) == [i \in 1..Len(val) |-> val[i].id]

\* C25 (History bound): starting from an empty history, after any sequence
\* of addToHistory, toggleFavorite, removeFromHistory and clearHistory
\* calls, each applied after the previous one has re-rendered, the history
\* holds at most 50 entries, the most recent first; the entry added last is
\* first, and adding to a full history drops only the oldest entry, the last
\* one.  The other calls keep the order of the entries.
C25_HistoryBound ==
  pc = "history" =>
    /\ Len(storedValue) <= 50
    /\ \A i, j \in 1..Len(storedValue) :
         i < j => storedValue[i].timestamp >= storedValue[j].timestamp
    /\ Len(issued) = 1 =>
         /\ issued[1].op = "addToHistory" =>
              /\ storedValue[1] = issued[1].entry
              /\ Len(closureValue) < 50 => storedValue = <<issued[1].entry>> \o closureValue
              /\ Len(closureValue) = 50 =>
                   storedValue = <<issued[1].entry>> \o SubSeq(closureValue, 1, 49)
         /\ issued[1].op = "toggleFavorite" => IdsOf(storedValue) = IdsOf(closureValue)
         /\ issued[1].op = "removeFromHistory" =>
              /\ \A i \in 1..Len(storedValue) : storedValue[i].id # issued[1].id
              /\ IdsOf(storedValue) = SelectSeq(IdsOf(closureValue), LAMBDA id : id # issued[1].id)
         /\ issued[1].op = "clearHistory" => storedValue = <<>>

\* an entry has been added to a full history after an earlier call and its
\* render
C25_Witness ==
  /\ pc = "history"
  /\ calls >= 2
  /\ Len(closureValue) = 50
  /\ Len(issued) = 1
  /\ issued[1].op = "addToHistory"
  /\ Len(storedValue) = 50
  /\ storedValue[50] = closureValue[49]

\* the updates of the calls issued since the last render, applied in order
\* to val
RECURSIVE ApplyIssued(_, _)
ApplyIssued(i, val) ==
  IF i > Len(issued) THEN val ELSE ApplyIssued(i + 1, valueToStore(issued[i], val))

\* C26 (No lost update in useLocalStorage): when two functional updates f
\* then g are issued through setValue before the component re-renders, the
\* stored state and the localStorage entry both end up as g(f(v)).
C26_NoLostUpdate ==
  (/\ pc = "history"
   /\ Len(issued) = 2
   /\ issued[1].op # "clearHistory"
   /\ issued[2].op # "clearHistory") =>
    /\ storedValue = ApplyIssued(1, closureValue)
    /\ localStorage = <<JSONStringify(ApplyIssued(1, closureValue))>>

\* a generation timer is pending that was set before the last reset, whose
\* own toast timer is still pending behind it
OlderThanReset(i) ==
  /\ timers[i].kind = "generate"
  /\ \E j \in 1..Len(timers) : j > i /\ timers[j].setBy = "reset"

\* C27 (Reset is final): the Reset button sets the prompt to '' and out to
\* null, and out stays null until the user starts a new generation: when
\* out is populated, it is not by the timer of a generation that was
\* started before the reset.
C27_ResetIsFinal ==
  [][/\ (Len(timers') = Len(timers) + 1 /\ timers'[Len(timers')].setBy = "reset") =>
          (promptState' = "" /\ out' = <<>>)
     /\ (out' # <<>> /\ out' # out) =>
          ~\E i \in 1..Len(timers) : FirstDue(i) /\ OlderThanReset(i)]_vars

\* C28 (Toast lifetime): a message shown with toastMsg stays visible for its
\* full 2200 ms unless a newer message replaces it: when a timer blanks the
\* toast, the timer of the message on show, the one set last, is due as
\* well, so no timer of toastMsg with time remaining is left pending.
C28_ToastLifetime ==
  [][(toast # "" /\ toast' = "") =>
       \A i \in 1..Len(timers') : timers'[i].kind = "toast" => timers'[i].remaining <= 0]_vars

\* C29 (Generation always completes): whenever generate starts a run,
\* loading eventually returns to false, whether optimizePrompt returns a
\* result or throws; and because the Generate button is disabled while
\* loading is true, at most one generation timer is pending at any time:
\* exactly one while loading, none otherwise.
C29_GenerationCompletes ==
  /\ [](Len(TimersOf("generate")) = IF loading THEN 1 ELSE 0)
  /\ loading ~> ~loading

\* a generation has completed with a result, and another with a throw
\* after it has left its toast
C29_Witness ==
  /\ pc = "home"
  /\ ~loading
  /\ out # <<>>
  /\ toast = "Generation failed"

\* the entries of an Accept-Language header as the claim reads them: the
\* language of the tag, and the quality in tenths, 1 when no q is given
HeaderEntries(h) ==
  LET pieces == Split(h, ",") IN
  [i \in 1..Len(pieces) |->
     LET fields == Split(Trim(pieces[i]), ";")
         q      == IF Len(fields) >= 2 THEN SecondPiece(fields[2], "=") ELSE <<>>
     IN [language |-> ToLowerCase(Split(Trim(fields[1]), "-")[1]),
         quality  |-> IF q = <<>> \/ ParseFloat(q[1]) = <<>> THEN 10 ELSE ParseFloat(q[1])[1]]]

\* the locale that the stated priority gives for a request
StatedLocale(req) ==
  LET entries   == IF req.acceptLanguage = <<>> THEN <<>> ELSE HeaderEntries(req.acceptLanguage[1])
      supported == {i \in 1..Len(entries) : entries[i].language \in {"en", "es"}}
      best      == {i \in supported :
                      \A j \in supported :
                        \/ entries[j].quality < entries[i].quality
                        \/ (entries[j].quality = entries[i].quality /\ j >= i)}
  IN IF req.cookie \in {<<"en">>, <<"es">>} THEN req.cookie[1]
     ELSE IF best # {} THEN entries[CHOOSE i \in best : TRUE].language
     ELSE IF req.timezone # <<>> /\ req.timezone[1] \in spanishTimezones THEN "es"
     ELSE "en"

\* C30 (Locale negotiation priority): negotiateLocale returns the po_locale
\* cookie value when it is en or es; otherwise the supported locale of the
\* Accept-Language entry with the highest quality value (no q counts as 1,
\* q = 0 ranks below every q > 0, ties go to the entry listed first);
\* otherwise es for a Spanish-region cf-timezone; otherwise en.  The result
\* is always en or es.  Stated for the locale of the redirect that the
\* second middleware answers.
C30_NegotiationPriority ==
  (Answered /\ deployed = 2 /\ response[1].kind = "redirect") =>
    /\ response[1].cookie = <<StatedLocale(request)>>
    /\ response[1].cookie[1] \in {"en", "es"}

====
